---- MODULE Spec2Model ----
(***************************************************************************)
(* Model of the transaction engine of arangod/Utils/Transaction.cpp:       *)
(* the transaction life cycle (openCollections, begin, commit, abort,      *)
(* finish), the scan helpers (readIncremental, any, all, readSlice) and    *)
(* the single-document operations (document, insert, remove).              *)
(*                                                                         *)
(* Every operation of the class is one action.  The action records in      *)
(* `last` what the call was given, what it returned and, in `last.trace`,  *)
(* the calls it made to its collaborators in the order it made them.       *)
(***************************************************************************)
EXTENDS Integers, Sequences, FiniteSets

\* ------------------------------------------------------------------ bounds
\* number of ticks TRI_NewTickServer hands out in a behaviour
MaxInserts == 2
\* largest number of documents a scanned collection starts with
MaxDocs == 3
\* largest batchSize / limit a scan helper is called with
MaxBatch == 2
\* largest number of documents a scan helper is asked to skip
MaxSkip == 1
\* deepest nesting level of a transaction
MaxNesting == 1

\* value of the tick server when the model starts (ticks drawn are larger)
FirstTick == 8

\* largest number of documents a collection paged by readSlice holds
MaxSliceDocs == 5
\* largest limit, and largest skip in either direction, of a paging readSlice
MaxSlice == 2
\* number of transactions running concurrently, and of collections they lock
NumTrx == 3
NumColls == 2
\* largest maximal size a datafile is created with, in bytes
MaxMaximalSize == 104
\* largest size of a marker room is reserved for, in bytes
MaxMarkerSize == 17
\* AlignedSize is applied to the 16-bit half words that lie at most this far
\* from 0 or from the largest half word
MaxWordOffset == 24
\* maximal size of the datafile whose markers are iterated, in bytes
MaxJournalSize == 144
\* number of ticks handed out to the markers of that datafile
MaxTicks == 3

\* ------------------------------------------------------------- error codes
NO_ERROR == "TRI_ERROR_NO_ERROR"
TRANSACTION_INTERNAL == "TRI_ERROR_TRANSACTION_INTERNAL"
TRANSACTION_NESTED == "TRI_ERROR_TRANSACTION_NESTED"
OUT_OF_MEMORY == "TRI_ERROR_OUT_OF_MEMORY"
INTERNAL == "TRI_ERROR_INTERNAL"
NOT_IMPLEMENTED == "TRI_ERROR_NOT_IMPLEMENTED"
CONFLICT == "TRI_ERROR_ARANGO_CONFLICT"
DOCUMENT_NOT_FOUND == "TRI_ERROR_ARANGO_DOCUMENT_NOT_FOUND"
COLLECTION_NOT_FOUND == "TRI_ERROR_ARANGO_COLLECTION_NOT_FOUND"
DOCUMENT_KEY_BAD == "TRI_ERROR_ARANGO_DOCUMENT_KEY_BAD"
DOCUMENT_TYPE_INVALID == "TRI_ERROR_ARANGO_DOCUMENT_TYPE_INVALID"
UNIQUE_CONSTRAINT_VIOLATED == "TRI_ERROR_ARANGO_UNIQUE_CONSTRAINT_VIOLATED"

\* ------------------------------------------------------ transaction status
CREATED == "TRI_TRANSACTION_CREATED"
RUNNING == "TRI_TRANSACTION_RUNNING"
COMMITTED == "TRI_TRANSACTION_COMMITTED"
ABORTED == "TRI_TRANSACTION_ABORTED"
UNDEFINED == "TRI_TRANSACTION_UNDEFINED"

\* lock modes of a transaction collection
READ == "TRI_TRANSACTION_READ"
WRITE == "TRI_TRANSACTION_WRITE"
UNLOCKED == "unlocked"

VARIABLES
  trxNull,       \* _trx == nullptr
  status,        \* _trx->_status
  setupState,    \* _setupState
  isReal,        \* _isReal
  nestingLevel,  \* _nestingLevel
  build,         \* "maintainer" (TRI_ASSERT active) or "release"
  alive,         \* FALSE once a TRI_ASSERT has aborted the process
  held,          \* lock this transaction holds on the collection
  index,         \* primary index: documents in its sequential order
  tickServer,    \* last tick handed out by TRI_NewTickServer
  insertLog,     \* history: the inserts that handed a document to the
                 \* collection, in call order
  locks,         \* locks[t][c]: the lock concurrent transaction t holds on
                 \* collection c
  df,            \* the datafile (TRI_datafile_t)
  last           \* the last call: input, result, calls made; the caller's
                 \* cursor (internalSkip) after a readIncremental

vars == <<trxNull, status, setupState, isReal, nestingLevel, build, alive,
          held, index, tickServer, insertLog, locks, df, last>>

\* ------------------------------------------------------------------ traces
Ev(e, r) == [ev |-> e, res |-> r]

RECURSIVE CountEv(_, _)
CountEv(tr, e) ==
  IF tr = <<>> THEN 0
  ELSE (IF Head(tr).ev = e THEN 1 ELSE 0) + CountEv(Tail(tr), e)

HasEv(tr, e) == \E i \in 1..Len(tr) : tr[i].ev = e

\* position of the first event e in tr, Len(tr) + 1 when there is none
FirstEv(tr, e) ==
  IF HasEv(tr, e) THEN CHOOSE i \in 1..Len(tr) :
                         /\ tr[i].ev = e
                         /\ \A j \in 1..(i - 1) : tr[j].ev # e
  ELSE Len(tr) + 1

\* -------------------------------------------------------------- life cycle
\* the Transaction object as the methods see it
Trx == [isNull |-> trxNull, status |-> status, setupState |-> setupState,
        isReal |-> isReal, nestingLevel |-> nestingLevel]

\* Transaction::getStatus
getStatus(t) == IF t.isNull THEN UNDEFINED ELSE t.status

\* result of a life-cycle method: returned code, new status, calls made
Ret(r, s, tr) == [res |-> r, status |-> s, trace |-> tr]

\* TRI_EnsureCollectionsTransaction
TRI_EnsureCollectionsTransaction(t, lowRes) ==
  Ret(lowRes, t.status, <<Ev("TRI_EnsureCollectionsTransaction", lowRes)>>)

\* TRI_BeginTransaction: CREATED -> RUNNING at the top level
TRI_BeginTransaction(t, lowRes) ==
  IF t.nestingLevel = 0 /\ t.status # CREATED
  THEN Ret(TRANSACTION_INTERNAL, t.status,
           <<Ev("TRI_BeginTransaction", TRANSACTION_INTERNAL)>>)
  ELSE Ret(lowRes,
           IF t.nestingLevel = 0 /\ lowRes = NO_ERROR THEN RUNNING ELSE t.status,
           <<Ev("TRI_BeginTransaction", lowRes)>>)

\* TRI_CommitTransaction: RUNNING -> COMMITTED at the top level
TRI_CommitTransaction(t, lowRes) ==
  Ret(lowRes,
      IF t.nestingLevel = 0 /\ lowRes = NO_ERROR THEN COMMITTED ELSE t.status,
      <<Ev("TRI_CommitTransaction", lowRes)>>)

\* TRI_AbortTransaction: RUNNING -> ABORTED at the top level
TRI_AbortTransaction(t, lowRes) ==
  Ret(lowRes,
      IF t.nestingLevel = 0 /\ lowRes = NO_ERROR THEN ABORTED ELSE t.status,
      <<Ev("TRI_AbortTransaction", lowRes)>>)

\* Transaction::openCollections
openCollections(t, lowRes) ==
  IF t.isNull THEN Ret(TRANSACTION_INTERNAL, t.status, <<>>)
  ELSE IF t.setupState # NO_ERROR THEN Ret(t.setupState, t.status, <<>>)
  ELSE IF ~t.isReal THEN Ret(NO_ERROR, t.status, <<>>)
  ELSE TRI_EnsureCollectionsTransaction(t, lowRes)

\* Transaction::begin
begin(t, lowRes) ==
  IF t.isNull THEN Ret(TRANSACTION_INTERNAL, t.status, <<>>)
  ELSE IF t.setupState # NO_ERROR THEN Ret(t.setupState, t.status, <<>>)
  ELSE IF ~t.isReal
       THEN IF t.nestingLevel = 0
            THEN Ret(NO_ERROR, RUNNING, <<Ev("write_status", RUNNING)>>)
            ELSE Ret(NO_ERROR, t.status, <<>>)
  ELSE TRI_BeginTransaction(t, lowRes)

\* commit that does not look at the status
commit_noguard(t, lowRes) ==
  IF t.isNull THEN Ret(TRANSACTION_INTERNAL, t.status, <<>>)
  ELSE IF ~t.isReal
       THEN IF t.nestingLevel = 0
            THEN Ret(NO_ERROR, COMMITTED, <<Ev("write_status", COMMITTED)>>)
            ELSE Ret(NO_ERROR, t.status, <<>>)
  ELSE TRI_CommitTransaction(t, lowRes)

\* Transaction::commit
commit(t, lowRes) ==
  IF t.isNull \/ getStatus(t) # RUNNING
  THEN Ret(TRANSACTION_INTERNAL, t.status, <<>>)
  ELSE IF ~t.isReal
       THEN IF t.nestingLevel = 0
            THEN Ret(NO_ERROR, COMMITTED, <<Ev("write_status", COMMITTED)>>)
            ELSE Ret(NO_ERROR, t.status, <<>>)
  ELSE TRI_CommitTransaction(t, lowRes)

\* abort that writes the status at every nesting level
abort_anylevel(t, lowRes) ==
  IF t.isNull \/ getStatus(t) # RUNNING
  THEN Ret(TRANSACTION_INTERNAL, t.status, <<>>)
  ELSE IF ~t.isReal
       THEN Ret(NO_ERROR, ABORTED, <<Ev("write_status", ABORTED)>>)
  ELSE TRI_AbortTransaction(t, lowRes)

\* Transaction::abort
abort(t, lowRes) ==
  IF t.isNull \/ getStatus(t) # RUNNING
  THEN Ret(TRANSACTION_INTERNAL, t.status, <<>>)
  ELSE IF ~t.isReal
       THEN IF t.nestingLevel = 0
            THEN Ret(NO_ERROR, ABORTED, <<Ev("write_status", ABORTED)>>)
            ELSE Ret(NO_ERROR, t.status, <<>>)
  ELSE TRI_AbortTransaction(t, lowRes)

\* finish that returns what abort returned
finish_abortresult(t, errorNum, lowRes) ==
  IF errorNum = NO_ERROR
  THEN LET c == commit(t, lowRes)
       IN  Ret(c.res, c.status, <<Ev("commit", c.res)>> \o c.trace)
  ELSE LET a == abort(t, lowRes)
       IN  Ret(a.res, a.status, <<Ev("abort", a.res)>> \o a.trace)

\* Transaction::finish
finish(t, errorNum, lowRes) ==
  IF errorNum = NO_ERROR
  THEN LET c == commit(t, lowRes)
       IN  Ret(c.res, c.status, <<Ev("commit", c.res)>> \o c.trace)
  ELSE LET a == abort(t, lowRes)
       IN  Ret(errorNum, a.status, <<Ev("abort", a.res)>> \o a.trace)

\* ----------------------------------------------------------------- strings
\* a string is a sequence of one-character strings
Digit == <<"0", "1", "2", "3", "4", "5", "6", "7", "8", "9">>

IsDigit(c) == \E d \in 1..Len(Digit) : Digit[d] = c

DigitValue(c) == (CHOOSE d \in 1..Len(Digit) : Digit[d] = c) - 1

\* std::to_string(uint64_t)
RECURSIVE to_string(_)
to_string(n) ==
  IF n < 10 THEN <<Digit[n + 1]>>
  ELSE to_string(n \div 10) \o <<Digit[(n % 10) + 1]>>

RECURSIVE ParseDigits(_, _)
ParseDigits(s, acc) ==
  IF s = <<>> THEN acc
  ELSE ParseDigits(Tail(s), acc * 10 + DigitValue(Head(s)))

\* StringUtils::uint64: the number a decimal string denotes, 0 for any other
uint64(s) ==
  IF s # <<>> /\ \A i \in 1..Len(s) : IsDigit(s[i])
  THEN ParseDigits(s, 0)
  ELSE 0

\* ------------------------------------------------------------------ slices
\* a VPackSlice holding a scalar, or None for a missing attribute
None == [kind |-> "none", s |-> <<>>, n |-> 0]
StrSlice(s) == [kind |-> "string", s |-> s, n |-> 0]
IntSlice(n) == [kind |-> "int", s |-> <<>>, n |-> n]
BoolSlice == [kind |-> "bool", s |-> <<>>, n |-> 0]

isNone(x) == x.kind = "none"
isString(x) == x.kind = "string"
isInteger(x) == x.kind = "int"
isObject(v) == v.kind = "object"
isArray(v) == v.kind = "array"

\* a VPackSlice passed as the value of an operation
\* (an object has the attributes `_key`, `_rev`, `_id` and one more, `other`)
Doc(k, r, i, o) ==
  [kind |-> "object", s |-> <<>>, key |-> k, rev |-> r, id |-> i, other |-> o]
Obj(k, r) == Doc(k, r, None, None)
StrVal(s) == [Doc(None, None, None, None) EXCEPT !.kind = "string", !.s = s]
ArrVal == [Doc(None, None, None, None) EXCEPT !.kind = "array"]
BoolVal == [Doc(None, None, None, None) EXCEPT !.kind = "bool"]

\* the custom-typed `_id` value insertLocal builds from a collection id
CustomId(cid) == [kind |-> "custom", s |-> <<>>, n |-> cid]

\* VPackCollection::merge(left, right, false, false): every attribute of
\* right, and the attributes of left that right does not have
merge(left, right) ==
  [left EXCEPT !.key = IF isNone(right.key) THEN left.key ELSE right.key,
               !.rev = IF isNone(right.rev) THEN left.rev ELSE right.rev,
               !.id = IF isNone(right.id) THEN left.id ELSE right.id,
               !.other = IF isNone(right.other) THEN left.other ELSE right.other]

\* --------------------------------------------------------- collaborators
CollName == <<"c">>
NoSuchName == <<"x">>
CollCid == 7

\* CollectionNameResolver::getCollectionId
getCollectionId(name) == IF name = CollName THEN CollCid ELSE 0

\* TRI_NewTickServer: the next value of the server's tick counter
TRI_NewTickServer(tick0) == tick0 + 1

\* KeyGenerator::generate
generate(tick) == to_string(tick)

\* KeyGenerator::validate
validate(key) ==
  IF key # <<>> /\ \A i \in 1..Len(key) : key[i] # "/"
  THEN NO_ERROR ELSE DOCUMENT_KEY_BAD

\* Transaction::isLocked
isLocked(t, h, type) ==
  /\ ~t.isNull
  /\ getStatus(t) = RUNNING
  /\ IF type = WRITE THEN h = WRITE ELSE h # UNLOCKED

\* Transaction::lock
lock(t, h, type) ==
  IF t.isNull \/ getStatus(t) # RUNNING
  THEN [res |-> TRANSACTION_INTERNAL, held |-> h]
  ELSE [res |-> NO_ERROR, held |-> IF h = UNLOCKED THEN type ELSE h]

\* Transaction::unlock
unlock(t, h, type) ==
  IF t.isNull \/ getStatus(t) # RUNNING
  THEN [res |-> TRANSACTION_INTERNAL, held |-> h]
  ELSE [res |-> NO_ERROR, held |-> UNLOCKED]

\* position of the document with this key in the index, 0 when absent
Find(idx, key) ==
  IF \E i \in 1..Len(idx) : idx[i].key = key
  THEN CHOOSE i \in 1..Len(idx) : idx[i].key = key
  ELSE 0

NoDoc == [key |-> <<>>, rev |-> <<>>, rid |-> 0]

Without(idx, i) == [j \in 1..(Len(idx) - 1) |-> IF j < i THEN idx[j] ELSE idx[j + 1]]

LockEv(shouldLock, type) == IF shouldLock THEN <<Ev("coll_lock", type)>> ELSE <<>>
UnlockEv(shouldLock, type) == IF shouldLock THEN <<Ev("coll_unlock", type)>> ELSE <<>>

\* TRI_document_collection_t::read
collection_read(idx, key, shouldLock) ==
  LET i == Find(idx, key)
      r == IF i = 0 THEN DOCUMENT_NOT_FOUND ELSE NO_ERROR
  IN  [res |-> r,
       mptr |-> IF i = 0 THEN NoDoc ELSE idx[i],
       trace |-> LockEv(shouldLock, READ) \o <<Ev("read", r)>>
                   \o UnlockEv(shouldLock, READ)]

\* TRI_document_collection_t::insert
collection_insert(idx, slice, shouldLock) ==
  LET i == Find(idx, slice.key.s)
      r == IF i # 0 THEN UNIQUE_CONSTRAINT_VIOLATED ELSE NO_ERROR
      d == [key |-> slice.key.s, rev |-> slice.rev.s, rid |-> uint64(slice.rev.s)]
  IN  [res |-> r,
       mptr |-> IF i # 0 THEN NoDoc ELSE d,
       index |-> IF i # 0 THEN idx ELSE Append(idx, d),
       trace |-> LockEv(shouldLock, WRITE) \o <<Ev("insert", r)>>
                   \o UnlockEv(shouldLock, WRITE)]

\* TRI_document_collection_t::remove
collection_remove(idx, slice, policy, shouldLock) ==
  LET i == Find(idx, slice.key)
      r == IF i = 0 THEN DOCUMENT_NOT_FOUND
           ELSE IF policy.policy = "TRI_DOC_UPDATE_ERROR"
                   /\ policy.expectedRevision # idx[i].rid
                THEN CONFLICT
                ELSE NO_ERROR
  IN  [res |-> r,
       actualRevision |-> IF i = 0 THEN 0 ELSE idx[i].rid,
       index |-> IF r = NO_ERROR THEN Without(idx, i) ELSE idx,
       trace |-> LockEv(shouldLock, WRITE) \o <<Ev("remove", r)>>
                   \o UnlockEv(shouldLock, WRITE)]

\* ------------------------------------------------ single-document operations
NoResult == [has |-> FALSE, id |-> <<>>, key |-> <<>>, rev |-> <<>>]

\* no document was handed to the collection
NoSlice == BoolVal

\* an OperationResult, with the index and tick server the call leaves behind
OpRet(r, thrown, result, idx, tick, tr) ==
  [res |-> r, thrown |-> thrown, result |-> result, index |-> idx,
   tick |-> tick, trace |-> tr, slice |-> NoSlice]

\* the revision a `_rev` attribute asks for (0: none)
ExpectedRevision(r) ==
  IF isNone(r) THEN 0
  ELSE IF isString(r) THEN uint64(r.s)
  ELSE IF isInteger(r) THEN r.n
  ELSE 0

ResolveEv(cid) == <<Ev("getCollectionId", IF cid = 0 THEN "0" ELSE "cid")>>
DitchEv(ditchOk) == <<Ev("orderDitch", IF ditchOk THEN "ditch" ELSE "nullptr")>>

\* documentLocal that reads although no ditch could be ordered
documentLocal_noditch(t, h, idx, tick, collectionName, value, ditchOk) ==
  LET cid == getCollectionId(collectionName)
      key == IF isObject(value) THEN value.key.s ELSE value.s
      expectedRevision == IF isObject(value) THEN ExpectedRevision(value.rev) ELSE 0
      rd == collection_read(idx, key, ~isLocked(t, h, READ))
      tr == ResolveEv(cid) \o DitchEv(ditchOk) \o rd.trace
  IN  IF cid = 0
      THEN OpRet(COLLECTION_NOT_FOUND, FALSE, NoResult, idx, tick, ResolveEv(cid))
      ELSE IF isObject(value) /\ ~isString(value.key)
      THEN OpRet(DOCUMENT_KEY_BAD, FALSE, NoResult, idx, tick, ResolveEv(cid))
      ELSE IF ~isObject(value) /\ ~isString(value)
      THEN OpRet(DOCUMENT_KEY_BAD, FALSE, NoResult, idx, tick, ResolveEv(cid))
      ELSE IF rd.res # NO_ERROR
      THEN OpRet(rd.res, FALSE, NoResult, idx, tick, tr)
      ELSE IF expectedRevision # 0 /\ expectedRevision # rd.mptr.rid
      THEN OpRet(CONFLICT, FALSE, NoResult, idx, tick, tr)
      ELSE OpRet(NO_ERROR, FALSE,
                 [has |-> TRUE, id |-> <<>>, key |-> rd.mptr.key, rev |-> rd.mptr.rev],
                 idx, tick, tr)

\* documentLocal that has the collection lock whatever the transaction holds
documentLocal_alwayslock(t, h, idx, tick, collectionName, value, ditchOk) ==
  LET rd == collection_read(idx, value.key.s, TRUE)
  IN  OpRet(rd.res, FALSE, NoResult, idx, tick, DitchEv(TRUE) \o rd.trace)

\* Transaction::documentLocal
documentLocal(t, h, idx, tick, collectionName, value, ditchOk) ==
  LET cid == getCollectionId(collectionName)
      key == IF isObject(value) THEN value.key.s ELSE value.s
      expectedRevision == IF isObject(value) THEN ExpectedRevision(value.rev) ELSE 0
      rd == collection_read(idx, key, ~isLocked(t, h, READ))
      tr == ResolveEv(cid) \o DitchEv(ditchOk) \o rd.trace
  IN  IF cid = 0
      THEN OpRet(COLLECTION_NOT_FOUND, FALSE, NoResult, idx, tick, ResolveEv(cid))
      ELSE IF isObject(value) /\ ~isString(value.key)
      THEN OpRet(DOCUMENT_KEY_BAD, FALSE, NoResult, idx, tick, ResolveEv(cid))
      ELSE IF ~isObject(value) /\ ~isString(value)
      THEN OpRet(DOCUMENT_KEY_BAD, FALSE, NoResult, idx, tick, ResolveEv(cid))
      ELSE IF ~ditchOk
      THEN OpRet(OUT_OF_MEMORY, FALSE, NoResult, idx, tick,
                 ResolveEv(cid) \o DitchEv(ditchOk))
      ELSE IF rd.res # NO_ERROR
      THEN OpRet(rd.res, FALSE, NoResult, idx, tick, tr)
      ELSE IF expectedRevision # 0 /\ expectedRevision # rd.mptr.rid
      THEN OpRet(CONFLICT, FALSE, NoResult, idx, tick, tr)
      ELSE OpRet(NO_ERROR, FALSE,
                 [has |-> TRUE, id |-> <<>>, key |-> rd.mptr.key, rev |-> rd.mptr.rev],
                 idx, tick, tr)

\* Transaction::document (on a single server: isCoordinator() is false)
document(t, h, idx, tick, collectionName, value, ditchOk) ==
  IF ~isObject(value) /\ ~isArray(value)
  THEN OpRet(DOCUMENT_TYPE_INVALID, TRUE, NoResult, idx, tick, <<>>)
  ELSE IF isArray(value)
  THEN OpRet(NOT_IMPLEMENTED, TRUE, NoResult, idx, tick, <<>>)
  ELSE documentLocal(t, h, idx, tick, collectionName, value, ditchOk)

\* the document with the caller's `_rev` and `_id` winning over the new ones
toInsert_callerwins(value, cid, tick) ==
  merge(Doc(IF isNone(value.key) THEN StrSlice(generate(tick)) ELSE None,
            StrSlice(to_string(tick)), CustomId(cid), None),
        value)

\* the document built from the first tick instead of the one just drawn
toInsert_firsttick(value, cid, tick) ==
  merge(value,
        Doc(IF isNone(value.key) THEN StrSlice(generate(FirstTick)) ELSE None,
            StrSlice(to_string(FirstTick)), CustomId(cid), None))

\* the document insertLocal hands to the collection: the caller's value merged
\* with the attributes it adds (`_key` if missing, `_rev`, `_id`)
toInsert(value, cid, tick) ==
  merge(value,
        Doc(IF isNone(value.key) THEN StrSlice(generate(tick)) ELSE None,
            StrSlice(to_string(tick)), CustomId(cid), None))

\* insertLocal that hands any key to the collection
insertLocal_novalidate(t, h, idx, tick0, collectionName, value, ditchOk) ==
  LET tick == TRI_NewTickServer(tick0)
      ins == collection_insert(idx, toInsert(value, CollCid, tick), TRUE)
  IN  [OpRet(ins.res, FALSE, NoResult, ins.index, tick,
             DitchEv(TRUE) \o ins.trace)
         EXCEPT !.slice = toInsert(value, CollCid, tick)]

\* Transaction::insertLocal
insertLocal(t, h, idx, tick0, collectionName, value, ditchOk) ==
  LET cid == getCollectionId(collectionName)
      tick == TRI_NewTickServer(tick0)
      key == value.key
      generated == isNone(key)
      vres == IF generated THEN NO_ERROR ELSE validate(key.s)
      tr1 == ResolveEv(cid) \o <<Ev("TRI_NewTickServer", "tick")>>
      tr2 == tr1 \o (IF generated THEN <<Ev("generate", "key")>>
                     ELSE <<Ev("validate", vres)>>)
      insertSlice == toInsert(value, cid, tick)
      ins == collection_insert(idx, insertSlice, ~isLocked(t, h, WRITE))
      tr3 == tr2 \o DitchEv(ditchOk)
      resultKey == ins.mptr.key
  IN  IF cid = 0
      THEN OpRet(COLLECTION_NOT_FOUND, FALSE, NoResult, idx, tick0, ResolveEv(cid))
      ELSE IF ~generated /\ ~isString(key)
      THEN OpRet(DOCUMENT_KEY_BAD, FALSE, NoResult, idx, tick, tr1)
      ELSE IF vres # NO_ERROR
      THEN OpRet(vres, FALSE, NoResult, idx, tick, tr2)
      ELSE IF ~ditchOk
      THEN OpRet(OUT_OF_MEMORY, FALSE, NoResult, idx, tick, tr3)
      ELSE IF ins.res # NO_ERROR
      THEN [OpRet(ins.res, FALSE, NoResult, idx, tick, tr3 \o ins.trace)
              EXCEPT !.slice = insertSlice]
      ELSE [OpRet(NO_ERROR, FALSE,
                  [has |-> TRUE, id |-> collectionName \o <<"/">> \o resultKey,
                   key |-> resultKey, rev |-> ins.mptr.rev],
                  ins.index, tick, tr3 \o ins.trace)
              EXCEPT !.slice = insertSlice]

\* Transaction::insert (on a single server: isCoordinator() is false)
insert(t, h, idx, tick, collectionName, value, ditchOk) ==
  IF ~isObject(value) /\ ~isArray(value)
  THEN OpRet(DOCUMENT_TYPE_INVALID, TRUE, NoResult, idx, tick, <<>>)
  ELSE IF isArray(value)
  THEN OpRet(NOT_IMPLEMENTED, TRUE, NoResult, idx, tick, <<>>)
  ELSE insertLocal(t, h, idx, tick, collectionName, value, ditchOk)

PolicyEv(p) == <<Ev("updatePolicy", p.policy)>>

\* removeLocal that reports the expected revision instead of the actual one
removeLocal_expectedrev(t, h, idx, tick, collectionName, value) ==
  LET cid == getCollectionId(collectionName)
      key == <<>>
      expectedRevision == IF isObject(value) THEN ExpectedRevision(value.rev) ELSE 0
      removeSlice == [key |-> IF isObject(value) THEN value.key.s ELSE value.s,
                      rev |-> to_string(expectedRevision)]
      updatePolicy == [policy |-> IF expectedRevision = 0
                                  THEN "TRI_DOC_UPDATE_LAST_WRITE"
                                  ELSE "TRI_DOC_UPDATE_ERROR",
                       expectedRevision |-> expectedRevision]
      rm == collection_remove(idx, removeSlice, updatePolicy, ~isLocked(t, h, WRITE))
      tr == ResolveEv(cid) \o PolicyEv(updatePolicy) \o rm.trace
  IN  IF cid = 0
      THEN OpRet(COLLECTION_NOT_FOUND, FALSE, NoResult, idx, tick, ResolveEv(cid))
      ELSE IF isObject(value) /\ ~isString(value.key)
      THEN OpRet(DOCUMENT_KEY_BAD, FALSE, NoResult, idx, tick, ResolveEv(cid))
      ELSE IF rm.res # NO_ERROR
      THEN OpRet(rm.res, FALSE, NoResult, idx, tick, tr)
      ELSE OpRet(NO_ERROR, FALSE,
                 [has |-> TRUE, id |-> collectionName \o <<"/">> \o key,
                  key |-> key, rev |-> to_string(expectedRevision)],
                 rm.index, tick, tr)

\* removeLocal that goes to the collection without resolving its name
removeLocal_noresolve(t, h, idx, tick, collectionName, value) ==
  LET rm == collection_remove(idx, [key |-> value.s, rev |-> to_string(0)],
                              [policy |-> "TRI_DOC_UPDATE_LAST_WRITE",
                               expectedRevision |-> 0],
                              ~isLocked(t, h, WRITE))
  IN  OpRet(rm.res, FALSE, NoResult, rm.index, tick,
            PolicyEv([policy |-> "TRI_DOC_UPDATE_LAST_WRITE"]) \o rm.trace)

\* Transaction::removeLocal
\* (`key` is declared and used for the result, and never assigned)
removeLocal(t, h, idx, tick, collectionName, value) ==
  LET cid == getCollectionId(collectionName)
      key == <<>>
      expectedRevision == IF isObject(value) THEN ExpectedRevision(value.rev) ELSE 0
      removeSlice == [key |-> IF isObject(value) THEN value.key.s ELSE value.s,
                      rev |-> to_string(expectedRevision)]
      updatePolicy == [policy |-> IF expectedRevision = 0
                                  THEN "TRI_DOC_UPDATE_LAST_WRITE"
                                  ELSE "TRI_DOC_UPDATE_ERROR",
                       expectedRevision |-> expectedRevision]
      rm == collection_remove(idx, removeSlice, updatePolicy, ~isLocked(t, h, WRITE))
      tr == ResolveEv(cid) \o PolicyEv(updatePolicy) \o rm.trace
  IN  IF cid = 0
      THEN OpRet(COLLECTION_NOT_FOUND, FALSE, NoResult, idx, tick, ResolveEv(cid))
      ELSE IF isObject(value) /\ ~isString(value.key)
      THEN OpRet(DOCUMENT_KEY_BAD, FALSE, NoResult, idx, tick, ResolveEv(cid))
      ELSE IF rm.res # NO_ERROR
      THEN OpRet(rm.res, FALSE, NoResult, idx, tick, tr)
      ELSE OpRet(NO_ERROR, FALSE,
                 [has |-> TRUE, id |-> collectionName \o <<"/">> \o key,
                  key |-> key, rev |-> to_string(rm.actualRevision)],
                 rm.index, tick, tr)

\* update that looks for an array before it checks the shape of newValue
update_arrayfirst(idx, tick, oldValue, newValue) ==
  IF ~isObject(oldValue) /\ ~isArray(oldValue)
  THEN OpRet(DOCUMENT_TYPE_INVALID, TRUE, NoResult, idx, tick, <<>>)
  ELSE OpRet(NOT_IMPLEMENTED, TRUE, NoResult, idx, tick, <<>>)

\* Transaction::updateLocal
updateLocal(idx, tick) == OpRet(NOT_IMPLEMENTED, TRUE, NoResult, idx, tick, <<>>)

\* replace that checks the shape of its arguments as update does
replace_typecheck(idx, tick, oldValue, newValue) ==
  IF ~isObject(oldValue) /\ ~isArray(oldValue)
  THEN OpRet(DOCUMENT_TYPE_INVALID, TRUE, NoResult, idx, tick, <<>>)
  ELSE OpRet(NOT_IMPLEMENTED, TRUE, NoResult, idx, tick, <<>>)

\* Transaction::replace
replace(idx, tick, oldValue, newValue) ==
  OpRet(NOT_IMPLEMENTED, TRUE, NoResult, idx, tick, <<>>)

\* Transaction::update (on a single server: isCoordinator() is false)
update(idx, tick, oldValue, newValue) ==
  IF ~isObject(oldValue) /\ ~isArray(oldValue)
  THEN OpRet(DOCUMENT_TYPE_INVALID, TRUE, NoResult, idx, tick, <<>>)
  ELSE IF ~isObject(newValue) /\ ~isArray(newValue)
  THEN OpRet(DOCUMENT_TYPE_INVALID, TRUE, NoResult, idx, tick, <<>>)
  ELSE IF isArray(oldValue) \/ isArray(newValue)
  THEN OpRet(NOT_IMPLEMENTED, TRUE, NoResult, idx, tick, <<>>)
  ELSE updateLocal(idx, tick)

\* Transaction::remove (on a single server: isCoordinator() is false)
remove(t, h, idx, tick, collectionName, value) ==
  IF ~isObject(value) /\ ~isArray(value) /\ ~isString(value)
  THEN OpRet(DOCUMENT_TYPE_INVALID, TRUE, NoResult, idx, tick, <<>>)
  ELSE IF isArray(value)
  THEN OpRet(NOT_IMPLEMENTED, TRUE, NoResult, idx, tick, <<>>)
  ELSE removeLocal(t, h, idx, tick, collectionName, value)

\* ------------------------------------------------------------ scan helpers
\* PrimaryIndex::lookupSequential: the cursor counts the documents passed
lookupSequential(idx, pos) ==
  IF pos < Len(idx)
  THEN [found |-> TRUE, doc |-> idx[pos + 1], pos |-> pos + 1]
  ELSE [found |-> FALSE, doc |-> NoDoc, pos |-> pos]

\* PrimaryIndex::lookupSequentialReverse: from the last document backwards
lookupSequentialReverse(idx, pos) ==
  IF pos < Len(idx)
  THEN [found |-> TRUE, doc |-> idx[Len(idx) - pos], pos |-> pos + 1]
  ELSE [found |-> FALSE, doc |-> NoDoc, pos |-> pos]

\* PrimaryIndex::lookupRandom: every document once, from a random start
lookupRandom(idx, start, pos) ==
  IF pos < Len(idx)
  THEN [found |-> TRUE, doc |-> idx[((start + pos) % Len(idx)) + 1], pos |-> pos + 1]
  ELSE [found |-> FALSE, doc |-> NoDoc, pos |-> pos]

LookEv(name, l) == <<Ev(name, IF l.found THEN "mptr" ELSE "nullptr")>>

\* what a scan helper returns and leaves behind
ScanRet(r, thrown, h, docs, pos, skip, tr) ==
  [res |-> r, thrown |-> thrown, held |-> h, docs |-> docs, pos |-> pos,
   skip |-> skip, trace |-> tr]

BAD_ALLOC == "std::bad_alloc"

\* the loop of readIncremental; st = [pos, count, skip, docs, trace, threw]
RECURSIVE readIncrementalLoop(_, _, _, _, _)
readIncrementalLoop(idx, st, batchSize, limit, allocOk) ==
  IF ~(st.count < batchSize \/ st.skip > 0) THEN st
  ELSE LET l == lookupSequential(idx, st.pos)
           tr == st.trace \o LookEv("lookupSequential", l)
       IN  IF ~l.found THEN [st EXCEPT !.trace = tr]
           ELSE IF st.skip > 0
           THEN readIncrementalLoop(idx,
                  [st EXCEPT !.pos = l.pos, !.skip = st.skip - 1, !.trace = tr],
                  batchSize, limit, allocOk)
           ELSE IF ~allocOk
           THEN [st EXCEPT !.pos = l.pos, !.trace = tr, !.threw = TRUE]
           ELSE IF st.count + 1 >= limit
           THEN [st EXCEPT !.pos = l.pos, !.trace = tr, !.count = st.count + 1,
                           !.docs = Append(st.docs, l.doc)]
           ELSE readIncrementalLoop(idx,
                  [st EXCEPT !.pos = l.pos, !.trace = tr, !.count = st.count + 1,
                             !.docs = Append(st.docs, l.doc)],
                  batchSize, limit, allocOk)

\* a loop that starts at the first document whatever the cursor says
LoopStart_fresh(pos, skip) ==
  [pos |-> 0, count |-> 0, skip |-> skip, docs |-> <<>>, trace |-> <<>>,
   threw |-> FALSE]

LoopStart(pos, skip) ==
  [pos |-> pos, count |-> 0, skip |-> skip, docs |-> <<>>, trace |-> <<>>,
   threw |-> FALSE]

\* Transaction::readIncremental
readIncremental(t, h, idx, pos, batchSize, skip, limit, ditchOk, allocOk) ==
  LET lk == lock(t, h, READ)
      ul == unlock(t, lk.held, READ)
      tr1 == <<Ev("lock", lk.res)>>
      tr2 == tr1 \o DitchEv(ditchOk)
      lp == readIncrementalLoop(idx, LoopStart(pos, skip), batchSize, limit, allocOk)
  IN  IF lk.res # NO_ERROR
      THEN ScanRet(lk.res, FALSE, h, <<>>, pos, skip, tr1)
      ELSE IF ~ditchOk
      THEN ScanRet(OUT_OF_MEMORY, FALSE, lk.held, <<>>, pos, skip, tr2)
      ELSE IF batchSize > 0 /\ ~allocOk
      THEN ScanRet(OUT_OF_MEMORY, FALSE, ul.held, <<>>, pos, skip,
                   tr2 \o <<Ev("unlock", ul.res)>>)
      ELSE IF lp.threw
      THEN ScanRet(OUT_OF_MEMORY, FALSE, ul.held, lp.docs, lp.pos, lp.skip,
                   tr2 \o lp.trace \o <<Ev("unlock", ul.res)>>)
      ELSE ScanRet(NO_ERROR, FALSE, ul.held, lp.docs, lp.pos, lp.skip,
                   tr2 \o lp.trace \o <<Ev("unlock", ul.res)>>)

\* the loop of any; st = [pos, count, skip, docs, trace, threw]
RECURSIVE anyLoop(_, _, _, _, _)
anyLoop(idx, st, start, batchSize, allocOk) ==
  IF ~(st.count < batchSize) THEN st
  ELSE LET l == lookupRandom(idx, start, st.pos)
           tr == st.trace \o LookEv("lookupRandom", l)
       IN  IF ~l.found THEN [st EXCEPT !.trace = tr]
           ELSE IF ~allocOk
           THEN [st EXCEPT !.pos = l.pos, !.trace = tr, !.threw = TRUE]
           ELSE anyLoop(idx,
                  [st EXCEPT !.pos = l.pos, !.trace = tr, !.count = st.count + 1,
                             !.docs = Append(st.docs, l.doc)],
                  start, batchSize, allocOk)

\* Transaction::any (batch overload)
any(t, h, idx, start, batchSize, ditchOk, allocOk) ==
  LET lk == lock(t, h, READ)
      ul == unlock(t, lk.held, READ)
      tr1 == <<Ev("lock", lk.res)>>
      tr2 == tr1 \o DitchEv(ditchOk)
      lp == anyLoop(idx, LoopStart(0, 0), start, batchSize, allocOk)
  IN  IF lk.res # NO_ERROR
      THEN ScanRet(lk.res, FALSE, h, <<>>, 0, 0, tr1)
      ELSE IF ~ditchOk
      THEN ScanRet(OUT_OF_MEMORY, FALSE, lk.held, <<>>, 0, 0, tr2)
      ELSE IF lp.threw
      THEN ScanRet(BAD_ALLOC, TRUE, lk.held, lp.docs, lp.pos, 0, tr2 \o lp.trace)
      ELSE ScanRet(NO_ERROR, FALSE, ul.held, lp.docs, lp.pos, 0,
                   tr2 \o lp.trace \o <<Ev("unlock", ul.res)>>)

\* Transaction::any (single-document overload)
anyOne(t, h, idx, start, ditchOk) ==
  LET lk == lock(t, h, READ)
      ul == unlock(t, lk.held, READ)
      tr1 == <<Ev("lock", lk.res)>>
      tr2 == tr1 \o DitchEv(ditchOk)
      l == lookupRandom(idx, start, 0)
  IN  IF lk.res # NO_ERROR
      THEN ScanRet(lk.res, FALSE, h, <<>>, 0, 0, tr1)
      ELSE IF ~ditchOk
      THEN ScanRet(OUT_OF_MEMORY, FALSE, lk.held, <<>>, 0, 0, tr2)
      ELSE ScanRet(NO_ERROR, FALSE, ul.held,
                   IF l.found THEN <<l.doc>> ELSE <<>>, l.pos, 0,
                   tr2 \o LookEv("lookupRandom", l) \o <<Ev("unlock", ul.res)>>)

\* the loop of all; st = [pos, count, skip, docs, trace, threw]
RECURSIVE allLoop(_, _, _)
allLoop(idx, st, allocOk) ==
  LET l == lookupSequential(idx, st.pos)
      tr == st.trace \o LookEv("lookupSequential", l)
  IN  IF ~l.found THEN [st EXCEPT !.trace = tr]
      ELSE IF ~allocOk
      THEN [st EXCEPT !.pos = l.pos, !.trace = tr, !.threw = TRUE]
      ELSE allLoop(idx,
             [st EXCEPT !.pos = l.pos, !.trace = tr,
                        !.docs = Append(st.docs, l.doc)],
             allocOk)

\* Transaction::all (docs stands for the keys collected in ids)
all(t, h, idx, lockIt, ditchOk, allocOk) ==
  LET lk == IF lockIt THEN lock(t, h, READ) ELSE [res |-> NO_ERROR, held |-> h]
      ul == unlock(t, lk.held, READ)
      tr1 == IF lockIt THEN <<Ev("lock", lk.res)>> ELSE <<>>
      tr2 == tr1 \o DitchEv(ditchOk)
      lp == IF Len(idx) > 0 THEN allLoop(idx, LoopStart(0, 0), allocOk)
            ELSE LoopStart(0, 0)
  IN  IF lk.res # NO_ERROR
      THEN ScanRet(lk.res, FALSE, h, <<>>, 0, 0, tr1)
      ELSE IF ~ditchOk
      THEN ScanRet(OUT_OF_MEMORY, FALSE, lk.held, <<>>, 0, 0, tr2)
      ELSE IF lp.threw
      THEN ScanRet(BAD_ALLOC, TRUE, lk.held, lp.docs, lp.pos, 0, tr2 \o lp.trace)
      ELSE ScanRet(NO_ERROR, FALSE, IF lockIt THEN ul.held ELSE lk.held,
                   lp.docs, lp.pos, 0,
                   tr2 \o lp.trace
                     \o (IF lockIt THEN <<Ev("unlock", ul.res)>> ELSE <<>>))

Lookup(idx, pos, reverse) ==
  IF reverse THEN lookupSequentialReverse(idx, pos) ELSE lookupSequential(idx, pos)

LookName(reverse) ==
  IF reverse THEN "lookupSequentialReverse" ELSE "lookupSequential"

\* the skipping loops of readSlice; st = [pos, skip, found, trace]
\* skip < 0:  do { lookup; ++skip; } while (skip < 0 && mptr != nullptr);
RECURSIVE skipBackward(_, _)
skipBackward(idx, st) ==
  LET l == lookupSequentialReverse(idx, st.pos)
      nx == [pos |-> l.pos, skip |-> st.skip + 1, found |-> l.found,
             trace |-> st.trace \o LookEv("lookupSequentialReverse", l)]
  IN  IF nx.skip < 0 /\ nx.found THEN skipBackward(idx, nx) ELSE nx

\* a readSlice that skips no document
skipForward_none(idx, st) == st

\* skip > 0:  while (skip > 0) { lookup; --skip; if (mptr == nullptr) return; }
RECURSIVE skipForward(_, _)
skipForward(idx, st) ==
  IF ~(st.skip > 0) THEN st
  ELSE LET l == lookupSequential(idx, st.pos)
           nx == [pos |-> l.pos, skip |-> st.skip - 1, found |-> l.found,
                  trace |-> st.trace \o LookEv("lookupSequential", l)]
       IN  IF ~nx.found THEN nx ELSE skipForward(idx, nx)

\* do { lookup; if (nullptr) break; ++count; emplace_back; } while (count < limit);
RECURSIVE collectLoop(_, _, _, _, _)
collectLoop(idx, st, limit, reverse, allocOk) ==
  LET l == Lookup(idx, st.pos, reverse)
      tr == st.trace \o LookEv(LookName(reverse), l)
      nx == [st EXCEPT !.pos = l.pos, !.trace = tr, !.count = st.count + 1,
                       !.docs = Append(st.docs, l.doc)]
  IN  IF ~l.found THEN [st EXCEPT !.trace = tr]
      ELSE IF ~allocOk
      THEN [st EXCEPT !.pos = l.pos, !.trace = tr, !.count = st.count + 1,
                      !.threw = TRUE]
      ELSE IF nx.count < limit THEN collectLoop(idx, nx, limit, reverse, allocOk)
      ELSE nx

\* readSlice that takes the read lock before it looks at limit
readSlice_lockfirst(t, h, idx, skip, limit, ditchOk, allocOk) ==
  LET lk == lock(t, h, READ)
  IN  ScanRet(lk.res, FALSE, lk.held, <<>>, 0, skip, <<Ev("lock", lk.res)>>)

\* Transaction::readSlice
readSlice(t, h, idx, skip, limit, ditchOk, allocOk) ==
  LET lk == lock(t, h, READ)
      ul == unlock(t, lk.held, READ)
      tr1 == <<Ev("lock", lk.res)>>
      tr2 == tr1 \o DitchEv(ditchOk)
      reverse == skip < 0
      start == [pos |-> 0, skip |-> skip, found |-> TRUE, trace |-> <<>>]
      sk == IF reverse THEN skipBackward(idx, start) ELSE skipForward(idx, start)
      lp == collectLoop(idx, LoopStart(sk.pos, 0), limit, reverse, allocOk)
      tr3 == tr2 \o sk.trace
  IN  IF limit = 0
      THEN ScanRet(NO_ERROR, FALSE, h, <<>>, 0, skip, <<>>)
      ELSE IF lk.res # NO_ERROR
      THEN ScanRet(lk.res, FALSE, h, <<>>, 0, skip, tr1)
      ELSE IF ~ditchOk
      THEN ScanRet(OUT_OF_MEMORY, FALSE, lk.held, <<>>, 0, skip, tr2)
      ELSE IF ~sk.found
      THEN ScanRet(NO_ERROR, FALSE, ul.held, <<>>, sk.pos, sk.skip,
                   tr3 \o <<Ev("unlock", ul.res)>>)
      ELSE IF lp.threw
      THEN ScanRet(BAD_ALLOC, TRUE, lk.held, lp.docs, lp.pos, sk.skip,
                   tr3 \o lp.trace)
      ELSE ScanRet(NO_ERROR, FALSE, ul.held, lp.docs, lp.pos, sk.skip,
                   tr3 \o lp.trace \o <<Ev("unlock", ul.res)>>)

\* ------------------------------------------------- locks of a collection
\* the transactions running concurrently and the collections they use
Trxs == 1..NumTrx
Colls == 1..NumColls

NoLocks == [t \in Trxs |-> [c \in Colls |-> UNLOCKED]]

\* a lock that only keeps two writers out of a collection
Compatible_writersonly(lk, t, c, type) ==
  \A u \in Trxs \ {t} : type = WRITE => lk[u][c] # WRITE

\* what the other transactions hold on collection c admits the lock: a write
\* lock excludes every other reader and writer of the collection, a read lock
\* excludes its writers
Compatible(lk, t, c, type) ==
  \A u \in Trxs \ {t} :
    IF type = WRITE THEN lk[u][c] = UNLOCKED ELSE lk[u][c] # WRITE

\* --------------------------------------------------------------- datafile
DATAFILE_FULL == "TRI_ERROR_ARANGO_DATAFILE_FULL"
DATAFILE_SEALED == "TRI_ERROR_ARANGO_DATAFILE_SEALED"
SYS_ERROR == "TRI_ERROR_SYS_ERROR"

\* AlignedSize: the 8-byte aligned size for the value ((value + 7) & 7 is the
\* remainder of value + 7 modulo 8)
AlignedSize(value) == (value + 7) - ((value + 7) % 8)

\* a TRI_voc_size_t (uint32_t) is kept as two 16-bit half words [hi, lo]
Half == 256 * 256

\* AlignedSize<TRI_voc_size_t>: value + 7 wraps modulo 2^32; clearing the
\* three low bits ((value + 7) - ((value + 7) & 7)) borrows nothing
AlignedSizeWord(w) ==
  LET sum == w.lo + 7
      lo7 == sum % Half
      hi7 == (w.hi + (sum \div Half)) % Half
  IN  [hi |-> hi7, lo |-> lo7 - (lo7 % 8)]

\* TRI_df_marker_type_e
MarkerTypes ==
  {"TRI_DF_MARKER_HEADER", "TRI_DF_MARKER_FOOTER", "TRI_DF_MARKER_PROLOGUE",
   "TRI_DF_MARKER_BLANK", "TRI_COL_MARKER_HEADER",
   "TRI_DOC_MARKER_KEY_DOCUMENT", "TRI_DOC_MARKER_KEY_EDGE",
   "TRI_WAL_MARKER_BEGIN_REMOTE_TRANSACTION",
   "TRI_WAL_MARKER_COMMIT_REMOTE_TRANSACTION",
   "TRI_WAL_MARKER_ABORT_REMOTE_TRANSACTION",
   "TRI_WAL_MARKER_VPACK_DOCUMENT", "TRI_WAL_MARKER_VPACK_REMOVE",
   "TRI_WAL_MARKER_VPACK_CREATE_COLLECTION",
   "TRI_WAL_MARKER_VPACK_DROP_COLLECTION",
   "TRI_WAL_MARKER_VPACK_RENAME_COLLECTION",
   "TRI_WAL_MARKER_VPACK_CHANGE_COLLECTION",
   "TRI_WAL_MARKER_VPACK_CREATE_INDEX", "TRI_WAL_MARKER_VPACK_DROP_INDEX",
   "TRI_WAL_MARKER_VPACK_CREATE_DATABASE", "TRI_WAL_MARKER_VPACK_DROP_DATABASE",
   "TRI_WAL_MARKER_VPACK_BEGIN_TRANSACTION",
   "TRI_WAL_MARKER_VPACK_COMMIT_TRANSACTION",
   "TRI_WAL_MARKER_VPACK_ABORT_TRANSACTION"}

\* VPackOffset: sizeof(TRI_df_marker_t) is 24, sizeof(TRI_voc_tid_t) is 8;
\* TRI_ASSERT(false) aborts a maintainer build and is no code in a release
\* build, which goes on to return 0
VPackOffset(type, bld) ==
  IF type \in {"TRI_WAL_MARKER_VPACK_DOCUMENT", "TRI_WAL_MARKER_VPACK_REMOVE"}
  THEN [returned |-> TRUE, offset |-> 24 + 8]
  ELSE IF bld = "maintainer"
  THEN [returned |-> FALSE, offset |-> 0]
  ELSE [returned |-> TRUE, offset |-> 0]

\* sizeof(TRI_df_header_marker_t) and sizeof(TRI_df_footer_marker_t)
HeaderSize == 40
FooterSize == 32

NoFooter == [has |-> FALSE, maximalSize |-> 0, totalSize |-> 0]

\* a datafile after its creation: the header marker is written, room for the
\* footer is set aside
TRI_CreateDatafile(maximalSize) ==
  [state |-> "WRITE", maximalSize |-> maximalSize, currentSize |-> HeaderSize,
   footerSize |-> FooterSize, next |-> HeaderSize, full |-> FALSE,
   isSealed |-> FALSE, reserved |-> <<>>, markers |-> {}, footer |-> NoFooter,
   tickMin |-> 0, tickMax |-> 0, dataMin |-> 0, dataMax |-> 0, log |-> <<>>]

\* what a datafile function returns and the datafile it leaves behind
DfRet(r, position, d) == [res |-> r, position |-> position, df |-> d]

\* reserveElement that does not look at _isSealed
TRI_ReserveElementDatafile_nosealcheck(d, size) ==
  IF AlignedSize(size) > d.maximalSize - d.footerSize - d.currentSize
  THEN DfRet(DATAFILE_FULL, 0, [d EXCEPT !.full = TRUE])
  ELSE DfRet(NO_ERROR, d.next,
             [d EXCEPT !.next = @ + AlignedSize(size),
                       !.currentSize = @ + AlignedSize(size),
                       !.reserved = Append(@, [position |-> d.next,
                                               size |-> AlignedSize(size)])])

\* reserveElement that leaves no room for the footer
TRI_ReserveElementDatafile_nofooter(d, size) ==
  IF d.isSealed THEN DfRet(DATAFILE_SEALED, 0, d)
  ELSE IF AlignedSize(size) > d.maximalSize - d.currentSize
  THEN DfRet(DATAFILE_FULL, 0, [d EXCEPT !.full = TRUE])
  ELSE DfRet(NO_ERROR, d.next,
             [d EXCEPT !.next = @ + AlignedSize(size),
                       !.currentSize = @ + AlignedSize(size),
                       !.reserved = Append(@, [position |-> d.next,
                                               size |-> AlignedSize(size)])])

\* reserveElement that does not align the size
TRI_ReserveElementDatafile_unaligned(d, size) ==
  IF d.isSealed THEN DfRet(DATAFILE_SEALED, 0, d)
  ELSE IF size > d.maximalSize - d.footerSize - d.currentSize
  THEN DfRet(DATAFILE_FULL, 0, [d EXCEPT !.full = TRUE])
  ELSE DfRet(NO_ERROR, d.next,
             [d EXCEPT !.next = @ + size, !.currentSize = @ + size,
                       !.reserved = Append(@, [position |-> d.next,
                                               size |-> size])])

\* TRI_ReserveElementDatafile: reserves room for an element, advances the
\* pointer
TRI_ReserveElementDatafile(d, size) ==
  LET aligned == AlignedSize(size)
  IN  IF d.isSealed THEN DfRet(DATAFILE_SEALED, 0, d)
      ELSE IF aligned > d.maximalSize - d.footerSize - d.currentSize
      THEN DfRet(DATAFILE_FULL, 0, [d EXCEPT !.full = TRUE])
      ELSE DfRet(NO_ERROR, d.next,
                 [d EXCEPT !.next = @ + aligned,
                           !.currentSize = @ + aligned,
                           !.reserved = Append(@, [position |-> d.next,
                                                   size |-> aligned])])

\* TRI_WriteElementDatafile: writes a marker into the room reserved for it; a
\* write that fails leaves the datafile as it was
TRI_WriteElementDatafile(d, position, size, writeOk) ==
  IF d.isSealed THEN DfRet(DATAFILE_SEALED, position, d)
  ELSE IF ~writeOk THEN DfRet(SYS_ERROR, position, d)
  ELSE DfRet(NO_ERROR, position,
             [d EXCEPT !.markers = {m \in @ : m.position # position}
                                     \cup {[position |-> position,
                                             size |-> size]}])

\* seal whose footer records the size before the footer was written
TRI_SealDatafile_sizebefore(d, writeOk) ==
  LET rs == TRI_ReserveElementDatafile([d EXCEPT !.footerSize = 0], FooterSize)
      wr == TRI_WriteElementDatafile(rs.df, rs.position, FooterSize, writeOk)
  IN  IF d.isSealed THEN DfRet(DATAFILE_SEALED, 0, d)
      ELSE IF rs.res # NO_ERROR THEN DfRet(rs.res, 0, rs.df)
      ELSE IF wr.res # NO_ERROR THEN DfRet(wr.res, 0, d)
      ELSE DfRet(NO_ERROR, rs.position,
                 [wr.df EXCEPT !.isSealed = TRUE, !.state = "READ",
                               !.footer = [has |-> TRUE,
                                           maximalSize |-> d.maximalSize,
                                           totalSize |-> d.currentSize]])

\* TRI_SealDatafile: seals a datafile, writes a footer, sets it to read-only.
\* The room set aside for the footer is released and reserved through
\* TRI_ReserveElementDatafile, the one function that grows currentSize.
TRI_SealDatafile(d, writeOk) ==
  LET rs == TRI_ReserveElementDatafile([d EXCEPT !.footerSize = 0], FooterSize)
      wr == TRI_WriteElementDatafile(rs.df, rs.position, FooterSize, writeOk)
  IN  IF d.isSealed THEN DfRet(DATAFILE_SEALED, 0, d)
      ELSE IF rs.res # NO_ERROR THEN DfRet(rs.res, 0, rs.df)
      ELSE IF wr.res # NO_ERROR THEN DfRet(wr.res, 0, d)
      ELSE DfRet(NO_ERROR, rs.position,
                 [wr.df EXCEPT !.isSealed = TRUE, !.state = "READ",
                               !.footer = [has |-> TRUE,
                                           maximalSize |-> d.maximalSize,
                                           totalSize |-> wr.df.currentSize]])

\* -------------------------------------------- markers of a datafile
\* sizeof(TRI_df_marker_t): the least size of a marker
MarkerMinSize == 24

\* the document and edge marker types
DataTypes == {"TRI_DOC_MARKER_KEY_DOCUMENT", "TRI_DOC_MARKER_KEY_EDGE"}

\* update of the tick values that counts every marker as a document
TRI_UpdateTicksDatafile_alwaysdata(d, type, tick) ==
  [d EXCEPT !.tickMin = IF @ = 0 \/ tick < @ THEN tick ELSE @,
            !.tickMax = IF @ < tick THEN tick ELSE @,
            !.dataMin = IF @ = 0 \/ tick < @ THEN tick ELSE @,
            !.dataMax = IF @ < tick THEN tick ELSE @]

\* TRI_UpdateTicksDatafile: tickMin / tickMax for every marker, dataMin /
\* dataMax for document and edge markers (0: no tick seen yet)
TRI_UpdateTicksDatafile(d, type, tick) ==
  [d EXCEPT !.tickMin = IF @ = 0 \/ tick < @ THEN tick ELSE @,
            !.tickMax = IF @ < tick THEN tick ELSE @,
            !.dataMin = IF type \in DataTypes /\ (@ = 0 \/ tick < @)
                        THEN tick ELSE @,
            !.dataMax = IF type \in DataTypes /\ @ < tick THEN tick ELSE @]

\* TRI_WriteCrcElementDatafile: finalizes the tick and the CRC of the marker,
\* writes it into the room reserved for it and updates the tick values
TRI_WriteCrcElementDatafile(d, position, size, type, tick0) ==
  LET tick == TRI_NewTickServer(tick0)
      marker == [position |-> position, size |-> size, type |-> type,
                 tick |-> tick, crcOk |-> TRUE, whole |-> TRUE]
      wr == TRI_WriteElementDatafile(d, position, size, TRUE)
  IN  IF wr.res # NO_ERROR
      THEN [res |-> wr.res, position |-> position, df |-> d, tick |-> tick]
      ELSE [res |-> NO_ERROR, position |-> position,
            df |-> [TRI_UpdateTicksDatafile(wr.df, type, tick)
                      EXCEPT !.log = Append(@, marker)],
            tick |-> tick]

\* room that was reserved and never written: zeroed bytes
BlankMarker(position) ==
  [position |-> position, size |-> 0, type |-> "none", tick |-> 0,
   crcOk |-> TRUE, whole |-> TRUE]

\* the footer marker of a sealed datafile
FooterMarker(position) ==
  [position |-> position, size |-> FooterSize, type |-> "TRI_DF_MARKER_FOOTER",
   tick |-> 0, crcOk |-> TRUE, whole |-> TRUE]

\* the markers behind the header in their on-disk order up to the append
\* cursor; the last entry of a sealed datafile is its footer
DiskOrder(d) ==
  [i \in 1..Len(d.reserved) |->
     LET p == d.reserved[i].position
     IN  IF \E j \in 1..Len(d.log) : d.log[j].position = p
         THEN d.log[CHOOSE j \in 1..Len(d.log) : d.log[j].position = p]
         ELSE IF d.isSealed /\ i = Len(d.reserved) THEN FooterMarker(p)
         ELSE BlankMarker(p)]

\* TRI_IsValidMarkerDatafile: the type is one of the enumeration and the size
\* is at least the least size of a marker
TRI_IsValidMarkerDatafile(m) ==
  /\ m.type \in MarkerTypes
  /\ m.size >= MarkerMinSize

\* number of markers at the head of the sequence that pass the test
RECURSIVE GoodPrefix(_, _, _)
GoodPrefix(disk, Good(_), n) ==
  IF n < Len(disk) /\ Good(disk[n + 1]) THEN GoodPrefix(disk, Good, n + 1) ELSE n

\* iterate that leaves out the invalid markers and goes on
TRI_IterateDatafile_skipbad(d) ==
  [ok |-> TRUE, visited |-> SelectSeq(DiskOrder(d), TRI_IsValidMarkerDatafile)]

\* TRI_IterateDatafile: the visitor sees the markers in on-disk order; the
\* walk stops, and fails, at the first marker that is not valid
TRI_IterateDatafile(d) ==
  LET disk == DiskOrder(d)
      n == GoodPrefix(disk, TRI_IsValidMarkerDatafile, 0)
  IN  [ok |-> n = Len(disk), visited |-> SubSeq(disk, 1, n)]

\* status of a TRI_df_scan_entry_t: 1 entry ok, 2 empty entry, 3 empty size,
\* 4 size too small, 5 CRC failed
ScanStatus(m) ==
  IF m.type = "none" /\ m.size = 0 THEN 2
  ELSE IF m.size = 0 THEN 3
  ELSE IF ~m.whole \/ m.size < MarkerMinSize THEN 4
  ELSE IF ~m.crcOk THEN 5
  ELSE 1

EntryOk(m) == ScanStatus(m) = 1

\* TRI_ScanDatafile: one entry for each marker, with its status
TRI_ScanDatafile(d) ==
  [i \in 1..Len(d.reserved) |->
     [position |-> DiskOrder(d)[i].position,
      status |-> ScanStatus(DiskOrder(d)[i])]]

\* TRI_TruncateDatafile: discards everything from the position on and seals
TRI_TruncateDatafile(d, position) ==
  LET Before(m) == m.position < position
      cut == [d EXCEPT !.reserved = SelectSeq(@, Before),
                       !.log = SelectSeq(@, Before),
                       !.markers = {m \in @ : m.position < position},
                       !.currentSize = position, !.next = position,
                       !.footerSize = FooterSize, !.isSealed = FALSE,
                       !.full = FALSE, !.footer = NoFooter,
                       !.maximalSize = position + FooterSize]
  IN  TRI_SealDatafile(cut, TRUE).df

\* repair that keeps the first marker that is not ok
TRI_TryRepairDatafile_keepbad(d) ==
  LET disk == DiskOrder(d)
      n == GoodPrefix(disk, EntryOk, 0)
  IN  IF n = Len(disk) THEN [ok |-> TRUE, df |-> d]
      ELSE [ok |-> TRUE,
            df |-> TRI_TruncateDatafile(d, disk[n + 1].position + 8)]

\* TRI_TryRepairDatafile: truncates at the first marker that is not ok and
\* seals again
TRI_TryRepairDatafile(d) ==
  LET disk == DiskOrder(d)
      n == GoodPrefix(disk, EntryOk, 0)
  IN  IF n = Len(disk) THEN [ok |-> TRUE, df |-> d]
      ELSE [ok |-> TRUE, df |-> TRI_TruncateDatafile(d, disk[n + 1].position)]

\* ------------------------------------------------------------------ inputs
K1 == <<"k", "1">>
K2 == <<"k", "2">>
BadKey == <<"a", "/", "b">>

\* results of the low-level transaction calls
LowResults == {NO_ERROR, INTERNAL}

\* setup errors a constructor can record
SetupErrors == {TRANSACTION_NESTED, OUT_OF_MEMORY}

\* error numbers handed to finish
FinishErrors == {NO_ERROR, CONFLICT}

CollNames == {CollName, NoSuchName}

\* `_key` attributes: missing, valid, invalid for the key generator, no string
KeySlices == {None, StrSlice(K1), StrSlice(K2), StrSlice(BadKey), IntSlice(5)}

\* highest tick TRI_NewTickServer hands out in a behaviour
MaxTick == FirstTick + MaxInserts

\* revisions a caller can name: 0 (never stored) and the first tick drawn
RevNumbers == {0, FirstTick + 1}

\* `_rev` attributes: missing, decimal string, integer, no number, no string
RevSlices ==
  {None, StrSlice(<<"a">>), BoolSlice}
    \cup {StrSlice(to_string(n)) : n \in RevNumbers}
    \cup {IntSlice(n) : n \in RevNumbers}

\* values handed to document and remove
ReadValues ==
  {Obj(StrSlice(K1), r) : r \in RevSlices}
    \cup {Obj(IntSlice(5), None), Obj(None, None), StrVal(K1), StrVal(K2),
          ArrVal, BoolVal}

\* values handed to insert
InsertValues ==
  {Obj(k, None) : k \in KeySlices}
    \cup {Doc(k, StrSlice(to_string(FirstTick)), StrSlice(<<"i">>),
               StrSlice(<<"v">>)) : k \in {None, StrSlice(K1)}}
    \cup {StrVal(K1), ArrVal}

\* the collection names a value is tried with: the unknown name is tried with
\* one value of each shape
NamesFor(value) ==
  IF value \in {Obj(StrSlice(K1), None), Obj(None, None), StrVal(K1), ArrVal}
  THEN CollNames ELSE {CollName}

\* whether orderDitch succeeds: its failure is tried with one value of each
\* kind of key
DitchOutcomes(value) ==
  IF value \in {Obj(StrSlice(K1), None), Obj(None, None)}
  THEN BOOLEAN ELSE {TRUE}

\* ---------------------------------------------------------- state machine
NoLast ==
  [op |-> "none", pre |-> CREATED, preIndex |-> <<>>, preHeld |-> UNLOCKED,
   preTick |-> 0,
   errorNum |-> NO_ERROR, coll |-> <<>>, value |-> BoolVal,
   newValue |-> BoolVal, slice |-> NoSlice,
   batchSize |-> 0, skip |-> 0, limit |-> 0, lockIt |-> TRUE, posIn |-> 0,
   res |-> NO_ERROR, thrown |-> FALSE, result |-> NoResult, docs |-> <<>>,
   skipOut |-> 0, pos |-> 0, trace |-> <<>>,
   paging |-> FALSE, paged |-> <<>>, afterEnd |-> FALSE,
   word |-> [hi |-> 0, lo |-> 0], out |-> [hi |-> 0, lo |-> 0],
   mtype |-> "TRI_DF_MARKER_BLANK", returned |-> FALSE, offset |-> 0,
   visited |-> <<>>, entries |-> <<>>, tick |-> 0, damage |-> "none",
   preDf |-> TRI_CreateDatafile(MaxMaximalSize), size |-> 0, position |-> 0]

\* the record of a call made in the current state
Call(op) == [NoLast EXCEPT !.op = op, !.pre = status, !.preIndex = index,
                           !.preHeld = held, !.preTick = tickServer,
                           !.preDf = df]

\* a Transaction after its constructor: at the top level the handle is new
\* (CREATED) or could not be allocated; an embedded one shares the running
\* handle of its parent
InitTrx ==
  /\ nestingLevel \in 0..MaxNesting
  /\ isReal \in BOOLEAN
  /\ \/ trxNull = FALSE /\ setupState \in {NO_ERROR, TRANSACTION_NESTED}
     \/ trxNull = TRUE /\ setupState = OUT_OF_MEMORY /\ nestingLevel = 0
  /\ status = IF nestingLevel = 0 THEN CREATED ELSE RUNNING

\* no concurrent transaction holds a lock; the datafile was just created
InitStore ==
  /\ locks = NoLocks
  /\ df = TRI_CreateDatafile(MaxMaximalSize)

InitRest ==
  /\ InitStore
  /\ alive = TRUE
  /\ held = UNLOCKED
  /\ index = <<>>
  /\ tickServer = FirstTick
  /\ insertLog = <<>>
  /\ last = NoLast

\* life cycle of any transaction the constructor can produce
InitLife == InitTrx /\ InitRest /\ build = "release"

\* a top-level transaction whose setup succeeded
InitTop ==
  /\ trxNull = FALSE
  /\ setupState = NO_ERROR
  /\ nestingLevel = 0
  /\ isReal = TRUE
  /\ status = CREATED

\* single-document operations on a collection that starts empty
Init == InitTop /\ InitRest /\ build \in {"maintainer", "release"}

\* the document insertLocal stores when it draws the i-th tick and no `_key`
\* is given
StoredDoc(i) ==
  [key |-> generate(FirstTick + i), rev |-> to_string(FirstTick + i),
   rid |-> FirstTick + i]

\* reads of a collection into which the first n such documents were inserted
InitScan ==
  /\ InitTop
  /\ InitStore
  /\ build = "release"
  /\ alive = TRUE
  /\ held = UNLOCKED
  /\ \E n \in 0..MaxDocs : index = [i \in 1..n |-> StoredDoc(i)]
  /\ tickServer = IF FirstTick + Len(index) < MaxTick
                  THEN MaxTick - 1 ELSE FirstTick + Len(index)
  /\ insertLog = <<>>
  /\ last = NoLast

\* paging through a collection of up to MaxSliceDocs documents that no
\* operation changes
InitSlice ==
  /\ InitTop
  /\ InitStore
  /\ build = "release"
  /\ alive = TRUE
  /\ held = UNLOCKED
  /\ \E n \in 0..MaxSliceDocs : index = [i \in 1..n |-> StoredDoc(i)]
  /\ tickServer = FirstTick + Len(index)
  /\ insertLog = <<>>
  /\ last = NoLast

\* the maximal sizes a datafile is created with
MaximalSizes ==
  {m \in {MaxMaximalSize - 8 * k : k \in 0..2} : m >= HeaderSize + FooterSize}

\* a datafile that was just created, used by one running transaction
InitDatafile ==
  /\ InitTop
  /\ build = "release"
  /\ alive = TRUE
  /\ held = UNLOCKED
  /\ index = <<>>
  /\ tickServer = FirstTick
  /\ insertLog = <<>>
  /\ locks = NoLocks
  /\ \E maximalSize \in MaximalSizes : df = TRI_CreateDatafile(maximalSize)
  /\ last = NoLast

\* a datafile that was just created and takes a handful of markers
InitJournal ==
  /\ InitTop
  /\ build = "release"
  /\ alive = TRUE
  /\ held = UNLOCKED
  /\ index = <<>>
  /\ tickServer = FirstTick
  /\ insertLog = <<>>
  /\ locks = NoLocks
  /\ df = TRI_CreateDatafile(MaxJournalSize)
  /\ last = NoLast

\* concurrent transactions that hold no lock yet
InitLock == InitTop /\ InitRest /\ build = "release"

TrxUnchanged ==
  UNCHANGED <<trxNull, setupState, isReal, nestingLevel, build, locks, df>>

\* the transaction, its collection and its history stay as they are
EngineUnchanged ==
  UNCHANGED <<trxNull, setupState, isReal, nestingLevel, build, status, alive,
              held, index, tickServer, insertLog>>

LifeCycle(op, errorNum, r) ==
  /\ alive
  /\ status' = r.status
  /\ last' = [Call(op) EXCEPT !.errorNum = errorNum, !.res = r.res,
                              !.trace = r.trace,
                              !.afterEnd = /\ last.op \in {"commit", "abort"}
                                           /\ last.res = NO_ERROR]
  /\ TrxUnchanged
  /\ UNCHANGED <<alive, held, index, tickServer, insertLog>>

OpenCollections ==
  \E lowRes \in LowResults :
    LifeCycle("openCollections", NO_ERROR, openCollections(Trx, lowRes))

Begin ==
  \E lowRes \in LowResults : LifeCycle("begin", NO_ERROR, begin(Trx, lowRes))

Commit ==
  \E lowRes \in LowResults : LifeCycle("commit", NO_ERROR, commit(Trx, lowRes))

Abort ==
  \E lowRes \in LowResults : LifeCycle("abort", NO_ERROR, abort(Trx, lowRes))

Finish ==
  \E lowRes \in LowResults, errorNum \in FinishErrors :
    LifeCycle("finish", errorNum, finish(Trx, errorNum, lowRes))

\* a caller locking / unlocking the collection through the transaction
LockCollection ==
  \E type \in {READ, WRITE} :
    LET r == lock(Trx, held, type)
    IN  /\ alive
        /\ held' = r.held
        /\ last' = [Call("lock") EXCEPT !.res = r.res]
        /\ TrxUnchanged
        /\ UNCHANGED <<status, alive, index, tickServer, insertLog>>

UnlockCollection ==
  LET r == unlock(Trx, held, held)
  IN  /\ alive
      /\ held # UNLOCKED
      /\ held' = r.held
      /\ last' = [Call("unlock") EXCEPT !.res = r.res]
      /\ TrxUnchanged
      /\ UNCHANGED <<status, alive, index, tickServer, insertLog>>

\* TRI_ASSERT(getStatus() == TRI_TRANSACTION_RUNNING) aborts a maintainer build
AssertFails == build = "maintainer" /\ getStatus(Trx) # RUNNING

ASSERTION == "TRI_ASSERT"

\* what an insert adds to the history: the key it generated (if any) and the
\* `_rev` it returned (if it succeeded)
Logged(value, r) ==
  IF r.slice = NoSlice THEN <<>>
  ELSE <<[key |-> IF isNone(value.key) THEN r.slice.key.s ELSE <<>>,
          rev |-> r.result.rev]>>

Crud(op, collectionName, value, newValue, r) ==
  /\ alive
  /\ TrxUnchanged
  /\ UNCHANGED <<status, held>>
  /\ IF AssertFails
     THEN /\ alive' = FALSE
          /\ last' = [Call(op) EXCEPT !.coll = collectionName, !.value = value,
                                      !.newValue = newValue,
                                      !.res = ASSERTION, !.thrown = TRUE]
          /\ UNCHANGED <<index, tickServer, insertLog>>
     ELSE /\ alive' = alive
          /\ index' = r.index
          /\ tickServer' = r.tick
          /\ insertLog' = insertLog \o Logged(value, r)
          /\ last' = [Call(op) EXCEPT !.coll = collectionName, !.value = value,
                                      !.newValue = newValue, !.slice = r.slice,
                                      !.res = r.res, !.thrown = r.thrown,
                                      !.result = r.result, !.trace = r.trace]

Document ==
  \E value \in ReadValues :
   \E collectionName \in NamesFor(value), ditchOk \in DitchOutcomes(value) :
    Crud("document", collectionName, value, BoolVal,
         document(Trx, held, index, tickServer, collectionName, value, ditchOk))

Insert ==
  \E value \in InsertValues :
   \E collectionName \in NamesFor(value), ditchOk \in DitchOutcomes(value) :
    /\ tickServer < MaxTick
    /\ Crud("insert", collectionName, value, BoolVal,
            insert(Trx, held, index, tickServer, collectionName, value, ditchOk))

Remove ==
  \E value \in ReadValues :
   \E collectionName \in NamesFor(value) :
    Crud("remove", collectionName, value, BoolVal,
         remove(Trx, held, index, tickServer, collectionName, value))

\* the shapes update tells apart: object, array, neither
UpdateValues == {Obj(StrSlice(K1), None), ArrVal, BoolVal}

Update ==
  \E oldValue \in UpdateValues, newValue \in UpdateValues :
    Crud("update", CollName, oldValue, newValue,
         update(index, tickServer, oldValue, newValue))

\* the call is one of a run of readIncremental calls that page through the
\* collection: it skips nothing, asks for a batch of at least one document,
\* succeeds, and starts with a fresh cursor or goes on with the cursor the
\* previous call of the run left behind
Paging(op, batchSize, skip, posIn, r) ==
  /\ op = "readIncremental" /\ skip = 0 /\ batchSize >= 1
  /\ r.res = NO_ERROR /\ ~r.thrown
  /\ posIn = 0 \/ (last.paging /\ posIn = last.pos)

Scan(op, batchSize, skip, limit, lockIt, posIn, r) ==
  /\ alive
  /\ TrxUnchanged
  /\ UNCHANGED <<status, alive, index, tickServer, insertLog>>
  /\ held' = r.held
  /\ last' = [Call(op) EXCEPT !.batchSize = batchSize, !.skip = skip,
                              !.limit = limit, !.lockIt = lockIt,
                              !.posIn = posIn, !.pos = r.pos,
                              !.res = r.res, !.thrown = r.thrown,
                              !.docs = r.docs, !.skipOut = r.skip,
                              !.trace = r.trace,
                              !.paging = Paging(op, batchSize, skip, posIn, r),
                              !.paged =
                                IF ~Paging(op, batchSize, skip, posIn, r)
                                THEN <<>>
                                ELSE IF posIn = 0 THEN r.docs
                                ELSE last.paged \o r.docs]

\* what the environment does to a scan: the ditch cannot be ordered, or a
\* vector allocation throws, or neither
ScanEnvs ==
  {[ditchOk |-> TRUE, allocOk |-> TRUE], [ditchOk |-> FALSE, allocOk |-> TRUE],
   [ditchOk |-> TRUE, allocOk |-> FALSE]}

\* the cursors a caller can pass: a fresh BucketPosition, or the one the
\* previous readIncremental call left behind
Cursors == {0} \cup (IF last.op = "readIncremental" THEN {last.pos} ELSE {})

\* a failing ditch order or allocation is tried on the readIncremental calls
\* that skip nothing and have the largest limit
IncrementalEnvs(skip, limit) ==
  IF skip = 0 /\ limit = MaxBatch
  THEN ScanEnvs ELSE {[ditchOk |-> TRUE, allocOk |-> TRUE]}

ReadIncremental ==
  \E batchSize \in 0..MaxBatch, skip \in 0..MaxSkip, limit \in 0..MaxBatch,
     internalSkip \in Cursors :
   \E env \in IncrementalEnvs(skip, limit) :
    Scan("readIncremental", batchSize, skip, limit, TRUE, internalSkip,
         readIncremental(Trx, held, index, internalSkip, batchSize, skip,
                         limit, env.ditchOk, env.allocOk))

Any ==
  \E batchSize \in 1..MaxBatch, start \in 0..MaxBatch, env \in ScanEnvs :
    Scan("any", batchSize, 0, 0, TRUE, 0,
         any(Trx, held, index, start, batchSize, env.ditchOk, env.allocOk))

AnyOne ==
  \E start \in 0..MaxBatch, ditchOk \in BOOLEAN :
    Scan("anyOne", 1, 0, 0, TRUE, 0, anyOne(Trx, held, index, start, ditchOk))

All ==
  \E lockIt \in BOOLEAN, env \in ScanEnvs :
    Scan("all", 0, 0, 0, lockIt, 0,
         all(Trx, held, index, lockIt, env.ditchOk, env.allocOk))

ReadSlice ==
  \E skip \in (0 - MaxSkip)..MaxSkip, limit \in 0..MaxBatch, env \in ScanEnvs :
    Scan("readSlice", 0, skip, limit, TRUE, 0,
         readSlice(Trx, held, index, skip, limit, env.ditchOk, env.allocOk))

\* readSlice paging through the collection in either direction
ReadSlicePaged ==
  \E skip \in (0 - MaxSlice)..MaxSlice, limit \in 0..MaxSlice :
   \E env \in IF skip = 0 /\ limit = MaxSlice
               THEN ScanEnvs ELSE {[ditchOk |-> TRUE, allocOk |-> TRUE]} :
    Scan("readSlice", 0, skip, limit, TRUE, 0,
         readSlice(Trx, held, index, skip, limit, env.ditchOk, env.allocOk))

\* replace has no TRI_ASSERT: it throws whatever the status is
Replace ==
  \E oldValue \in UpdateValues, newValue \in UpdateValues :
    LET r == replace(index, tickServer, oldValue, newValue)
    IN  /\ alive
        /\ TrxUnchanged
        /\ UNCHANGED <<status, held, alive, insertLog>>
        /\ index' = r.index
        /\ tickServer' = r.tick
        /\ last' = [Call("replace") EXCEPT !.coll = CollName,
                                           !.value = oldValue,
                                           !.newValue = newValue,
                                           !.res = r.res, !.thrown = r.thrown,
                                           !.result = r.result,
                                           !.trace = r.trace]

\* a concurrent transaction takes the lock of a collection: it waits until
\* what the others hold admits it
Acquire(t, c, type) ==
  /\ locks[t][c] = UNLOCKED
  /\ Compatible(locks, t, c, type)
  /\ locks' = [locks EXCEPT ![t][c] = type]
  /\ last' = [Call("acquire") EXCEPT !.res = NO_ERROR]
  /\ UNCHANGED df
  /\ EngineUnchanged

AcquireLock == \E t \in Trxs, c \in Colls, type \in {READ, WRITE} : Acquire(t, c, type)

ReleaseLock ==
  \E t \in Trxs, c \in Colls :
    /\ locks[t][c] # UNLOCKED
    /\ locks' = [locks EXCEPT ![t][c] = UNLOCKED]
    /\ last' = [Call("release") EXCEPT !.res = NO_ERROR]
    /\ UNCHANGED df
    /\ EngineUnchanged

\* a call of a datafile function
Datafile(op, size, r) ==
  /\ df' = r.df
  /\ last' = [Call(op) EXCEPT !.size = size, !.res = r.res,
                              !.position = r.position]
  /\ UNCHANGED locks
  /\ EngineUnchanged

ReserveElement ==
  \E size \in 1..MaxMarkerSize :
    Datafile("reserveElement", size, TRI_ReserveElementDatafile(df, size))

\* a marker is written into room that was reserved for it
WriteElement ==
  \E i \in 1..Len(df.reserved), writeOk \in BOOLEAN :
    Datafile("writeElement", df.reserved[i].size,
             TRI_WriteElementDatafile(df, df.reserved[i].position,
                                      df.reserved[i].size, writeOk))

SealDatafile ==
  \E writeOk \in BOOLEAN :
    Datafile("seal", FooterSize, TRI_SealDatafile(df, writeOk))

\* the sizes of the markers of the journal: a bare marker, a marker with data
MarkerSizes == {MarkerMinSize, MarkerMinSize + MaxMarkerSize}

\* the types of the markers written to the journal
WrittenTypes == {"TRI_DF_MARKER_PROLOGUE", "TRI_DOC_MARKER_KEY_EDGE"}

\* the damage a datafile can take behind the back of the program
Damages == {"crc", "size", "truncated"}

Journal(op, r) ==
  /\ df' = r.df
  /\ UNCHANGED locks
  /\ UNCHANGED <<trxNull, setupState, isReal, nestingLevel, build, status,
                 alive, held, index, insertLog>>

ReserveMarker ==
  \E size \in MarkerSizes :
    LET r == TRI_ReserveElementDatafile(df, size)
    IN  /\ Journal("reserveElement", r)
        /\ UNCHANGED tickServer
        /\ last' = [Call("reserveElement") EXCEPT !.size = size,
                       !.res = r.res, !.position = r.position]

\* a marker is written, with tick and checksum, into room that was reserved
\* for it and not written yet
WriteCrcElement ==
  \E i \in 1..Len(df.reserved), type \in WrittenTypes :
    LET room == df.reserved[i]
        r == TRI_WriteCrcElementDatafile(df, room.position, room.size, type,
                                         tickServer)
    IN  /\ tickServer < FirstTick + MaxTicks
        /\ \A m \in df.markers : m.position # room.position
        /\ Journal("writeCrcElement", r)
        /\ tickServer' = r.tick
        /\ last' = [Call("writeCrcElement") EXCEPT !.size = room.size,
                       !.res = r.res, !.position = r.position,
                       !.mtype = type, !.tick = r.tick]

SealJournal ==
  LET r == TRI_SealDatafile(df, TRUE)
  IN  /\ Journal("seal", r)
      /\ UNCHANGED tickServer
      /\ last' = [Call("seal") EXCEPT !.size = FooterSize, !.res = r.res,
                                      !.position = r.position]

\* a marker of an undamaged datafile is damaged on disk: its checksum no
\* longer fits, its size field is garbage, or the file ends in its middle
Corrupt ==
  \E j \in 1..Len(df.log), damage \in Damages :
    LET p == df.log[j].position
        Upto(m) == m.position <= p
        hit == [df.log[j] EXCEPT
                  !.crcOk = FALSE,
                  !.size = IF damage = "size" THEN 8 ELSE @,
                  !.whole = damage # "truncated"]
        damaged == [df EXCEPT !.log[j] = hit]
        cut == [damaged EXCEPT !.reserved = SelectSeq(@, Upto),
                               !.log = SelectSeq(@, Upto),
                               !.markers = {m \in @ : m.position <= p},
                               !.isSealed = FALSE, !.footer = NoFooter]
    IN  /\ \A k \in 1..Len(df.log) : EntryOk(df.log[k])
        /\ Journal("corrupt",
                   [df |-> IF damage = "truncated" THEN cut ELSE damaged])
        /\ UNCHANGED tickServer
        /\ last' = [Call("corrupt") EXCEPT !.position = p, !.damage = damage]

Iterate ==
  LET r == TRI_IterateDatafile(df)
  IN  /\ Journal("iterate", [df |-> df])
      /\ UNCHANGED tickServer
      /\ last' = [Call("iterate") EXCEPT !.returned = r.ok,
                                         !.visited = r.visited]

ScanDatafile ==
  /\ Journal("scan", [df |-> df])
  /\ UNCHANGED tickServer
  /\ last' = [Call("scan") EXCEPT !.entries = TRI_ScanDatafile(df)]

TryRepair ==
  LET r == TRI_TryRepairDatafile(df)
  IN  /\ Journal("tryRepair", r)
      /\ UNCHANGED tickServer
      /\ last' = [Call("tryRepair") EXCEPT !.returned = r.ok]

\* the half words AlignedSize is applied to: near 0 and near the largest
HalfWords == (0..MaxWordOffset) \cup ((Half - 1 - MaxWordOffset)..(Half - 1))

AlignedSizeCall ==
  \E hi \in {0, 1, Half - 1}, lo \in HalfWords :
    /\ alive
    /\ last' = [Call("AlignedSize") EXCEPT
                  !.word = [hi |-> hi, lo |-> lo],
                  !.out = AlignedSizeWord([hi |-> hi, lo |-> lo])]
    /\ UNCHANGED <<locks, df>>
    /\ EngineUnchanged

VPackOffsetCall ==
  \E type \in MarkerTypes :
    LET r == VPackOffset(type, build)
    IN  /\ alive
        /\ alive' = r.returned
        /\ last' = [Call("VPackOffset") EXCEPT !.mtype = type,
                                               !.returned = r.returned,
                                               !.offset = r.offset]
        /\ TrxUnchanged
        /\ UNCHANGED <<status, held, index, tickServer, insertLog>>

NextMarker == AlignedSizeCall \/ VPackOffsetCall

NextLife == OpenCollections \/ Begin \/ Commit \/ Abort \/ Finish

NextSlice == Begin \/ ReadIncremental \/ ReadSlicePaged

NextStub == Begin \/ Commit \/ Insert \/ Update \/ Replace

NextLock == AcquireLock \/ ReleaseLock

NextDatafile == ReserveElement \/ WriteElement \/ SealDatafile

NextJournal ==
  \/ ReserveMarker \/ WriteCrcElement \/ SealJournal
  \/ Corrupt
  \/ Iterate \/ ScanDatafile \/ TryRepair

NextScan ==
  \/ Begin
  \/ Document \/ Insert
  \/ ReadIncremental \/ Any \/ AnyOne \/ All \/ ReadSlice

Next ==
  \/ Begin \/ Commit
  \/ LockCollection \/ UnlockCollection
  \/ Document \/ Insert \/ Update \/ Remove

\* the life cycle of every kind of transaction
SpecLife == InitLife /\ [][NextLife]_vars

\* the operations of a top-level transaction that order a ditch
SpecScan == InitScan /\ [][NextScan]_vars

\* the single-document operations of a top-level transaction
Spec == Init /\ [][Next]_vars

\* paging through an unchanging collection
SpecSlice == InitSlice /\ [][NextSlice]_vars

\* the operations that are not implemented
SpecStub == Init /\ [][NextStub]_vars

\* concurrent transactions locking collections
SpecLock == InitLock /\ [][NextLock]_vars

\* markers written to a datafile, damaged, iterated, scanned and repaired
SpecJournal == InitJournal /\ [][NextJournal]_vars

\* the pure functions of datafile.h
SpecMarker == Init /\ [][NextMarker]_vars

\* reserving, writing and sealing in one datafile
SpecDatafile == InitDatafile /\ [][NextDatafile]_vars

\* ================================================================== claims
LifeOps == {"begin", "commit", "abort", "finish"}
ScanOps == {"readIncremental", "any", "anyOne", "all", "readSlice"}

\* the call ran (no TRI_ASSERT stopped it)
Ran(op) == last.op = op /\ last.res # ASSERTION

\* the call ran in a RUNNING transaction, as its contract requires
RanRunning(op) == Ran(op) /\ last.pre = RUNNING

LowLevelCalls ==
  {"TRI_BeginTransaction", "TRI_CommitTransaction", "TRI_AbortTransaction"}

\* C1: under any sequence of begin, commit, abort and finish calls the status
\* changes only along CREATED -> RUNNING (begin), RUNNING -> COMMITTED (commit)
\* and RUNNING -> ABORTED (abort); a COMMITTED or ABORTED transaction never
\* becomes RUNNING again.
C1_StatusStateMachine ==
  (last.op \in LifeOps /\ status # last.pre) =>
    \/ /\ last.pre = CREATED /\ status = RUNNING
       /\ last.op = "begin"
    \/ /\ last.pre = RUNNING /\ status = COMMITTED
       /\ (last.op = "commit" \/ (last.op = "finish" /\ last.errorNum = NO_ERROR))
    \/ /\ last.pre = RUNNING /\ status = ABORTED
       /\ (last.op = "abort" \/ (last.op = "finish" /\ last.errorNum # NO_ERROR))

\* C1, the case the code reaches: begin on a COMMITTED non-real transaction
C1_Reached ==
  /\ last.op = "begin" /\ last.pre \in {COMMITTED, ABORTED} /\ status = RUNNING
  /\ ~isReal /\ nestingLevel = 0

LockOkCount(tr) == Cardinality({i \in 1..Len(tr) : tr[i] = Ev("lock", NO_ERROR)})

\* C2: every scan helper that acquired the read lock has released it when it
\* returns, on every exit path: its successful lock calls equal its unlock
\* calls, and a lock that was not held before the call is not held after it.
C2_ScanLockReleased ==
  (last.op \in ScanOps /\ last.lockIt) =>
    /\ LockOkCount(last.trace) = CountEv(last.trace, "unlock")
    /\ (last.preHeld = UNLOCKED => held = UNLOCKED)

\* C2, the case the code reaches: a scan helper returns with the lock held
C2_Reached ==
  /\ last.op \in ScanOps /\ last.preHeld = UNLOCKED /\ held = READ
  /\ last.res = OUT_OF_MEMORY

DitchOps == {"document", "insert"} \cup ScanOps

\* the events in which the primary index or the collection is consulted
AccessEvents ==
  {"lookupSequential", "lookupSequentialReverse", "lookupRandom", "read", "insert"}

DitchOrdered == Ev("orderDitch", "ditch")
DitchFailed == Ev("orderDitch", "nullptr")

\* C3: in document-read, insert and every scan helper no primary-index lookup
\* and no collection read/insert happens unless a ditch was ordered before it
\* in the same operation; when ordering the ditch fails the operation returns
\* OUT_OF_MEMORY and no document.
C3_DitchBeforeAccess ==
  last.op \in DitchOps =>
    /\ \A i \in 1..Len(last.trace) :
         last.trace[i].ev \in AccessEvents =>
           \E j \in 1..(i - 1) : last.trace[j] = DitchOrdered
    /\ (\E i \in 1..Len(last.trace) : last.trace[i] = DitchFailed) =>
         /\ last.res = OUT_OF_MEMORY
         /\ last.docs = <<>>
         /\ ~last.result.has

\* C3 witness: a document-read of a stored key whose ditch could not be ordered
C3_Witness ==
  /\ RanRunning("document")
  /\ isObject(last.value) /\ isString(last.value.key)
  /\ Find(index, last.value.key.s) # 0
  /\ \E i \in 1..Len(last.trace) : last.trace[i] = DitchFailed
  /\ last.res = OUT_OF_MEMORY

\* C4: with a setupState error recorded, openCollections, begin, commit and
\* abort each return exactly that error and leave the status unchanged; with a
\* null handle each of them fails and changes nothing.
C4_SetupErrorReturned ==
  last.op \in {"openCollections", "begin", "commit", "abort"} =>
    /\ (~trxNull /\ setupState # NO_ERROR) =>
         (last.res = setupState /\ status = last.pre)
    /\ trxNull => (last.res # NO_ERROR /\ status = last.pre)

\* C4, the case the code reaches: commit answers a setup error with another code
C4_Reached ==
  /\ last.op \in {"commit", "abort"}
  /\ ~trxNull /\ setupState # NO_ERROR
  /\ last.res = TRANSACTION_INTERNAL

\* C5: finish(errorNum) with errorNum == NO_ERROR performs commit and returns
\* commit's result; with any other errorNum it performs abort and returns
\* errorNum itself, whatever abort returned.
C5_Finish ==
  last.op = "finish" =>
    /\ Len(last.trace) >= 1
    /\ IF last.errorNum = NO_ERROR
       THEN /\ last.trace[1].ev = "commit"
            /\ ~HasEv(last.trace, "abort")
            /\ last.res = last.trace[1].res
            /\ (last.res = NO_ERROR /\ nestingLevel = 0) => status = COMMITTED
       ELSE /\ last.trace[1].ev = "abort"
            /\ ~HasEv(last.trace, "commit")
            /\ last.res = last.errorNum
            /\ (last.trace[1].res = NO_ERROR /\ nestingLevel = 0) => status = ABORTED

\* C5 witness: finish with an error on a transaction that is not RUNNING, so
\* that abort fails, and finish still returns the error it was given
C5_Witness ==
  /\ last.op = "finish" /\ last.errorNum = CONFLICT
  /\ last.pre # RUNNING
  /\ last.trace[1] = Ev("abort", TRANSACTION_INTERNAL)
  /\ last.res = CONFLICT

\* begin, commit or abort got past its guard
GuardPassed ==
  /\ ~trxNull
  /\ IF last.op = "begin" THEN setupState = NO_ERROR ELSE last.pre = RUNNING

NonRealFrame ==
  /\ \A i \in 1..Len(last.trace) : last.trace[i].ev \notin LowLevelCalls
  /\ (status # last.pre \/ HasEv(last.trace, "write_status")) => nestingLevel = 0

\* C6 as stated: for a non-real transaction begin, commit and abort never make
\* the low-level calls, write the status only when nestingLevel == 0, and at
\* nestingLevel > 0 return NO_ERROR leaving the status unchanged.
C6_NonRealAsStated ==
  (~isReal /\ last.op \in {"begin", "commit", "abort"}) =>
    /\ NonRealFrame
    /\ nestingLevel > 0 => (last.res = NO_ERROR /\ status = last.pre)

\* C6 amended: ... and at nestingLevel > 0 they leave the status unchanged and
\* return NO_ERROR whenever the call gets past its guard (begin: handle not
\* null and no setup error; commit, abort: handle not null and status RUNNING).
C6_NonRealFrame ==
  (~isReal /\ last.op \in {"begin", "commit", "abort"}) =>
    /\ NonRealFrame
    /\ nestingLevel > 0 => status = last.pre
    /\ (nestingLevel > 0 /\ GuardPassed) => last.res = NO_ERROR
    /\ (nestingLevel = 0 /\ GuardPassed) =>
         /\ last.res = NO_ERROR
         /\ status = (IF last.op = "begin" THEN RUNNING
                      ELSE IF last.op = "commit" THEN COMMITTED ELSE ABORTED)

\* C6 witness: abort of a nested non-real transaction
C6_Witness ==
  /\ ~isReal /\ nestingLevel > 0 /\ last.op = "abort"
  /\ last.res = NO_ERROR /\ status = RUNNING

\* the value names its document by a string key (bare, or as `_key`)
KeyOf(value) == IF isObject(value) THEN value.key.s ELSE value.s
HasKey(value) ==
  \/ isString(value)
  \/ isObject(value) /\ isString(value.key)

\* the `_rev` attribute r names the revision of the stored document d
SameRevision(r, d) ==
  \/ isString(r) /\ r.s = d.rev
  \/ isInteger(r) /\ r.n = d.rid

RevSupplied(value) == isObject(value) /\ ~isNone(value.rev)

\* the stored document the call was pointed at (NoDoc when there is none)
Target == IF HasKey(last.value) /\ Find(last.preIndex, KeyOf(last.value)) # 0
          THEN last.preIndex[Find(last.preIndex, KeyOf(last.value))]
          ELSE NoDoc

\* C7: document-read of an existing key fails with CONFLICT and returns no body
\* whenever a `_rev` was supplied that differs from the revision of the
\* document found, for every supplied `_rev` value; otherwise it returns the
\* document body.
C7_ReadConflict ==
  (/\ RanRunning("document") /\ last.coll = CollName
   /\ isObject(last.value) /\ Target # NoDoc
   /\ HasEv(last.trace, "read")) =>
    IF RevSupplied(last.value) /\ ~SameRevision(last.value.rev, Target)
    THEN last.res = CONFLICT /\ ~last.result.has
    ELSE /\ last.res = NO_ERROR /\ last.result.has
         /\ last.result.key = Target.key /\ last.result.rev = Target.rev

\* C7, the case the code reaches: a `_rev` that is supplied, names no stored
\* revision, and is read as "no revision expected"
C7_Reached ==
  /\ RanRunning("document") /\ Target # NoDoc
  /\ RevSupplied(last.value) /\ ~SameRevision(last.value.rev, Target)
  /\ last.res = NO_ERROR /\ last.result.has

\* C8: remove with an expected `_rev` that differs from the stored revision
\* fails with CONFLICT and leaves the document in the collection unchanged.
C8_RemoveConflict ==
  (/\ RanRunning("remove") /\ last.coll = CollName
   /\ Target # NoDoc
   /\ RevSupplied(last.value) /\ ~SameRevision(last.value.rev, Target)) =>
    /\ last.res = CONFLICT
    /\ index = last.preIndex

\* C8, the case the code reaches: the document is removed
C8_Reached ==
  /\ RanRunning("remove") /\ Target # NoDoc
  /\ RevSupplied(last.value) /\ ~SameRevision(last.value.rev, Target)
  /\ last.res = NO_ERROR /\ Find(index, Target.key) = 0

\* C9: remove without a `_rev` on an existing document succeeds whatever the
\* stored revision is, and the `_rev` of its result is the decimal string of
\* the revision the removed document had.
C9_RemoveLastWrite ==
  (/\ Ran("remove") /\ last.coll = CollName
   /\ Target # NoDoc
   /\ ~RevSupplied(last.value)) =>
    /\ last.res = NO_ERROR
    /\ last.result.has
    /\ last.result.rev = to_string(Target.rid)
    /\ last.result.rev = Target.rev
    /\ Find(index, Target.key) = 0
    /\ Len(index) = Len(last.preIndex) - 1

\* C9 witness: a remove without `_rev` of a document stored with a two-digit
\* revision, given as an object
C9_Witness ==
  /\ RanRunning("remove") /\ Target # NoDoc
  /\ isObject(last.value) /\ ~RevSupplied(last.value)
  /\ Target.rid >= 10
  /\ last.res = NO_ERROR

\* C10: a successful remove returns `_key` equal to the key of the removed
\* document and `_id` equal to <collectionName>/<that key>, for the bare-string
\* and the object form of the argument.
C10_RemoveResultKey ==
  (RanRunning("remove") /\ last.res = NO_ERROR) =>
    /\ last.result.key = KeyOf(last.value)
    /\ last.result.id = last.coll \o <<"/">> \o KeyOf(last.value)

\* C10, the case the code reaches: a removed document reported with an empty key
C10_Reached ==
  /\ RanRunning("remove") /\ last.res = NO_ERROR /\ Target # NoDoc
  /\ last.result.key = <<>>

\* the result recorded with the first event e of the call
EvRes(e) == last.trace[FirstEv(last.trace, e)].res

\* C11: remove passes the collection the policy LAST_WRITE exactly when the
\* caller gave no expected revision, and the policy ERROR in every case where
\* the caller gave one.
C11_RemovePolicy ==
  (RanRunning("remove") /\ HasEv(last.trace, "remove")) =>
    EvRes("updatePolicy") = (IF RevSupplied(last.value)
                             THEN "TRI_DOC_UPDATE_ERROR"
                             ELSE "TRI_DOC_UPDATE_LAST_WRITE")

\* C11, the case the code reaches: a remove that was given a `_rev` and hands
\* the collection LAST_WRITE
C11_Reached ==
  /\ RanRunning("remove") /\ HasEv(last.trace, "remove")
  /\ RevSupplied(last.value)
  /\ EvRes("updatePolicy") = "TRI_DOC_UPDATE_LAST_WRITE"

\* what the public document operation gives for the object {_key: k} in the
\* state the last call was made in
ObjectFormRead(k) ==
  document([Trx EXCEPT !.status = last.pre], last.preHeld, last.preIndex,
           tickServer, last.coll, Obj(StrSlice(k), None), TRUE)

\* C12: for the same key, the bare-string form and the {_key: ...} form passed
\* to the public document operation read the same document and give the same
\* result.
C12_ReadBothForms ==
  (RanRunning("document") /\ isString(last.value)) =>
    /\ last.res = ObjectFormRead(last.value.s).res
    /\ last.thrown = ObjectFormRead(last.value.s).thrown
    /\ last.result = ObjectFormRead(last.value.s).result

\* C12, the case the code reaches: the bare key of a stored document is
\* refused where the object form reads the document
C12_Reached ==
  /\ RanRunning("document") /\ isString(last.value) /\ Target # NoDoc
  /\ last.res = DOCUMENT_TYPE_INVALID /\ last.thrown
  /\ ObjectFormRead(last.value.s).res = NO_ERROR
  /\ ObjectFormRead(last.value.s).result.key = last.value.s

\* a `_rev` that is a non-numeric string, or neither a string nor an integer
MalformedRev(r) ==
  \/ isString(r) /\ (r.s = <<>> \/ \E i \in 1..Len(r.s) : ~IsDigit(r.s[i]))
  \/ ~isNone(r) /\ ~isString(r) /\ ~isInteger(r)

ValidationErrors == {DOCUMENT_KEY_BAD, DOCUMENT_TYPE_INVALID}

\* the calls an operation makes on the collection and its locks
StorageEvents ==
  {"orderDitch", "coll_lock", "coll_unlock", "read", "insert", "remove"}

NoStorageEvent == \A i \in 1..Len(last.trace) : last.trace[i].ev \notin StorageEvents

\* C13: a document-read or remove whose object argument has a missing or
\* non-string `_key`, or a malformed `_rev`, is rejected with a validation
\* error before any ditch is ordered, any lock is taken or the collection's
\* read/remove is called.
C13_MalformedRejected ==
  (/\ (RanRunning("document") \/ RanRunning("remove"))
   /\ last.coll = CollName /\ isObject(last.value)
   /\ (~isString(last.value.key) \/ MalformedRev(last.value.rev))) =>
    /\ last.res \in ValidationErrors
    /\ NoStorageEvent
    /\ index = last.preIndex

\* C13, the case the code reaches: a read with a malformed `_rev` gets to the
\* collection and returns the document
C13_Reached ==
  /\ RanRunning("document") /\ isObject(last.value)
  /\ MalformedRev(last.value.rev)
  /\ HasEv(last.trace, "orderDitch") /\ HasEv(last.trace, "read")
  /\ last.res = NO_ERROR /\ last.result.has

CrudOps == {"document", "insert", "update", "remove"}

\* a single-document operation ran in a RUNNING transaction
CrudRan == last.op \in CrudOps /\ RanRunning(last.op)

\* the call was given an array
ArrayArg ==
  \/ isArray(last.value)
  \/ last.op = "update" /\ isArray(last.newValue)

\* the call made no call at all and changed nothing
NoPartialWork ==
  /\ last.trace = <<>>
  /\ tickServer = last.preTick
  /\ index = last.preIndex
  /\ held = last.preHeld
  /\ ~last.result.has

\* C14 as stated: document, insert, update and remove called with an array
\* argument fail with NOT_IMPLEMENTED and perform no partial work.
C14_ArrayAsStated ==
  (CrudRan /\ ArrayArg) =>
    /\ last.res = NOT_IMPLEMENTED /\ last.thrown
    /\ NoPartialWork

\* update was given one array and one value that is neither object nor array
UpdateShapeInvalid ==
  /\ last.op = "update"
  /\ \/ ~isObject(last.value) /\ ~isArray(last.value)
     \/ ~isObject(last.newValue) /\ ~isArray(last.newValue)

\* C14 amended: document, insert and remove called with an array argument, and
\* update called with an array argument and no argument that is neither object
\* nor array, fail with NOT_IMPLEMENTED; update called with an array and a
\* value that is neither object nor array fails with DOCUMENT_TYPE_INVALID;
\* none of them performs partial work.
C14_ArrayUnsupported ==
  (CrudRan /\ ArrayArg) =>
    /\ last.thrown
    /\ last.res = (IF UpdateShapeInvalid THEN DOCUMENT_TYPE_INVALID
                   ELSE NOT_IMPLEMENTED)
    /\ NoPartialWork

\* C14 witness: an update whose new value is an array, on a collection that
\* holds documents
C14_Witness ==
  /\ RanRunning("update") /\ isObject(last.value) /\ isArray(last.newValue)
  /\ last.res = NOT_IMPLEMENTED /\ last.thrown
  /\ index # <<>>

\* the public operation hands the value on to its local function
Dispatched ==
  \/ last.op \in {"document", "insert"} /\ isObject(last.value)
  \/ last.op = "remove" /\ (isObject(last.value) \/ isString(last.value))

OnlyResolved ==
  \A i \in 1..Len(last.trace) : last.trace[i].ev = "getCollectionId"

\* what a local function returns when all it did was fail to resolve the name
NotFound == OpRet(COLLECTION_NOT_FOUND, FALSE, NoResult, index, tickServer,
                  ResolveEv(0))

\* in the current state documentLocal, insertLocal and removeLocal answer an
\* unknown collection name with COLLECTION_NOT_FOUND and nothing else,
\* whatever the value and whether or not a ditch could be ordered
LocalUnknown ==
  \A value \in ReadValues \cup InsertValues, ditchOk \in BOOLEAN :
    /\ documentLocal(Trx, held, index, tickServer, NoSuchName, value, ditchOk)
         = NotFound
    /\ insertLocal(Trx, held, index, tickServer, NoSuchName, value, ditchOk)
         = NotFound
    /\ removeLocal(Trx, held, index, tickServer, NoSuchName, value) = NotFound

\* C15: document-read, insert and remove (documentLocal, insertLocal and
\* removeLocal, called directly or through the public operation) on a
\* collection name that does not resolve return COLLECTION_NOT_FOUND, and no
\* call on such a name draws a tick, orders a ditch, takes a lock or calls the
\* collection.
C15_UnknownCollection ==
  /\ LocalUnknown
  /\ (CrudRan /\ last.op # "update" /\ getCollectionId(last.coll) = 0) =>
       /\ Dispatched => (last.res = COLLECTION_NOT_FOUND /\ ~last.thrown)
       /\ OnlyResolved
       /\ tickServer = last.preTick
       /\ index = last.preIndex
       /\ held = last.preHeld
       /\ ~last.result.has

\* C15 witness: a remove by bare key, of a key that is stored in the known
\* collection, on an unknown collection name
C15_Witness ==
  /\ RanRunning("remove") /\ last.coll = NoSuchName
  /\ isString(last.value) /\ Find(last.preIndex, last.value.s) # 0
  /\ last.res = COLLECTION_NOT_FOUND

\* the insert handed a document to the collection
Handed == last.op = "insert" /\ last.slice # NoSlice

\* C16: in the document that insert hands to the collection, `_id` and `_rev`
\* are always the synthesized values (the collection id, the decimal string of
\* the fresh tick) even when the caller supplied `_id` or `_rev`, a
\* caller-supplied valid `_key` is kept unchanged, and every other
\* caller-supplied field is kept unchanged.
C16_InsertMerge ==
  (RanRunning("insert") /\ Handed) =>
    /\ tickServer = last.preTick + 1
    /\ last.slice.id = CustomId(getCollectionId(last.coll))
    /\ last.slice.rev = StrSlice(to_string(tickServer))
    /\ ~isNone(last.value.key) =>
         (last.slice.key = last.value.key /\ validate(last.value.key.s) = NO_ERROR)
    /\ last.slice.other = last.value.other

\* C16 witness: an insert whose caller supplied `_key`, `_rev`, `_id` and
\* another field, handed to the collection with a `_rev` other than the
\* caller's
C16_Witness ==
  /\ RanRunning("insert") /\ Handed /\ last.res = NO_ERROR
  /\ isString(last.value.key) /\ isString(last.value.id)
  /\ isString(last.value.rev) /\ isString(last.value.other)
  /\ last.slice.rev # last.value.rev
  /\ last.slice.key = last.value.key

\* the `_rev` values the successful inserts returned, in call order
RECURSIVE ReturnedRevs(_)
ReturnedRevs(log) ==
  IF log = <<>> THEN <<>>
  ELSE (IF Head(log).rev # <<>> THEN <<Head(log).rev>> ELSE <<>>)
         \o ReturnedRevs(Tail(log))

\* C17: each successful insert draws one fresh tick and returns its decimal
\* string as `_rev`; over any sequence of successful inserts the returned
\* `_rev` values are strictly increasing in call order.
C17_FreshRevisions ==
  /\ \A i, j \in 1..Len(ReturnedRevs(insertLog)) :
       i < j => uint64(ReturnedRevs(insertLog)[i]) < uint64(ReturnedRevs(insertLog)[j])
  /\ (Ran("insert") /\ last.res = NO_ERROR) =>
       /\ CountEv(last.trace, "TRI_NewTickServer") = 1
       /\ tickServer = last.preTick + 1
       /\ last.result.rev = to_string(tickServer)
       /\ ReturnedRevs(insertLog)[Len(ReturnedRevs(insertLog))] = last.result.rev

\* C17 witness: two successful inserts, the second with a `_rev` of more
\* digits than the first
C17_Witness ==
  /\ Len(ReturnedRevs(insertLog)) >= 2
  /\ Len(ReturnedRevs(insertLog)[2]) > Len(ReturnedRevs(insertLog)[1])
  /\ Ran("insert") /\ last.res = NO_ERROR

\* C18: insert with a caller-supplied string `_key` that the key generator
\* rejects returns exactly the generator's validation error and performs no
\* write: no ditch is ordered, no lock is taken, the collection's insert is
\* never called and the collection contents are unchanged.
C18_InvalidKeyNoWrite ==
  (/\ RanRunning("insert") /\ last.coll = CollName
   /\ isObject(last.value) /\ isString(last.value.key)
   /\ validate(last.value.key.s) # NO_ERROR) =>
    /\ last.res = validate(last.value.key.s)
    /\ ~last.thrown /\ ~last.result.has
    /\ NoStorageEvent
    /\ ~Handed
    /\ index = last.preIndex
    /\ held = last.preHeld

\* C18 witness: an insert with a rejected key into a collection that holds
\* documents
C18_Witness ==
  /\ RanRunning("insert") /\ last.coll = CollName
  /\ isObject(last.value) /\ last.value.key = StrSlice(BadKey)
  /\ last.res = DOCUMENT_KEY_BAD
  /\ index # <<>>

\* the keys generated for the inserts without `_key`, in call order
RECURSIVE GeneratedKeys(_)
GeneratedKeys(log) ==
  IF log = <<>> THEN <<>>
  ELSE (IF Head(log).key # <<>> THEN <<Head(log).key>> ELSE <<>>)
         \o GeneratedKeys(Tail(log))

\* C19: any two inserts without `_key` into the same collection, in any
\* sequence of operations, are given different generated keys, each generated
\* from the fresh tick of its insert.
C19_GeneratedKeysDiffer ==
  /\ \A i, j \in 1..Len(GeneratedKeys(insertLog)) :
       i # j => GeneratedKeys(insertLog)[i] # GeneratedKeys(insertLog)[j]
  /\ (Ran("insert") /\ Handed /\ isNone(last.value.key)) =>
       /\ last.slice.key = StrSlice(generate(tickServer))
       /\ tickServer = last.preTick + 1

\* C19 witness: two inserts without `_key`, both stored, the second under a
\* key of more digits than the first
C19_Witness ==
  /\ Len(GeneratedKeys(insertLog)) >= 2
  /\ Ran("insert") /\ isNone(last.value.key) /\ last.res = NO_ERROR
  /\ Len(GeneratedKeys(insertLog)[2]) > Len(GeneratedKeys(insertLog)[1])
  /\ Find(index, GeneratedKeys(insertLog)[1]) # 0
  /\ Find(index, GeneratedKeys(insertLog)[2]) # 0

\* the transaction holds the collection in the mode an operation requires
HeldInMode(h, type) == IF type = WRITE THEN h = WRITE ELSE h \in {READ, WRITE}

RequiredMode == IF last.op = "document" THEN READ ELSE WRITE

\* the collection call the operation makes
CollectionCall == IF last.op = "document" THEN "read" ELSE last.op

\* C20: document-read, insert and remove ask the collection to take its lock
\* exactly when the transaction does not already hold the collection in the
\* required mode (READ for read, WRITE for insert and remove); when it holds
\* it, the operation does not lock again and does not release the lock the
\* transaction holds.
C20_LockOnlyIfNotHeld ==
  (/\ last.op \in {"document", "insert", "remove"} /\ RanRunning(last.op)
   /\ HasEv(last.trace, CollectionCall)) =>
    /\ HasEv(last.trace, "coll_lock") <=> ~HeldInMode(last.preHeld, RequiredMode)
    /\ HasEv(last.trace, "coll_lock") =>
         /\ EvRes("coll_lock") = RequiredMode
         /\ CountEv(last.trace, "coll_lock") = 1
         /\ CountEv(last.trace, "coll_unlock") = 1
    /\ HeldInMode(last.preHeld, RequiredMode) => ~HasEv(last.trace, "coll_unlock")
    /\ held = last.preHeld

\* C20 witness: a read in a transaction that holds the collection's write lock
C20_Witness ==
  /\ RanRunning("document") /\ last.preHeld = WRITE /\ held = WRITE
  /\ HasEv(last.trace, "read") /\ ~HasEv(last.trace, "coll_lock")
  /\ last.res = NO_ERROR

\* ------------------------------------------------------- C21 .. C30
Minimum(a, b) == IF a <= b THEN a ELSE b

\* the documents of the index from position m to position n, none when m > n
Window(m, n) == IF m > n THEN <<>> ELSE SubSeq(index, m, n)

\* C21: with several transactions running concurrently, in no reachable state
\* does one transaction hold the WRITE lock of a collection while another
\* transaction holds a READ or WRITE lock of the same collection; several
\* READ holders of one collection may coexist; and whatever is held on the
\* other collections, a transaction can take the lock, in either mode, of a
\* collection on which no other transaction holds a lock.
C21_LockExclusion ==
  /\ \A c \in Colls, t \in Trxs, u \in Trxs :
       (t # u /\ locks[t][c] = WRITE) => locks[u][c] = UNLOCKED
  /\ \A t \in Trxs, c \in Colls, type \in {READ, WRITE} :
       (\A u \in Trxs : locks[u][c] = UNLOCKED) => ENABLED Acquire(t, c, type)

\* C21 witness: two transactions hold the READ lock of one collection while a
\* third holds the WRITE lock of another collection, after an acquisition
C21_Witness ==
  /\ last.op = "acquire"
  /\ \E c \in Colls, d \in Colls, t \in Trxs, u \in Trxs, w \in Trxs :
       /\ c # d /\ t # u /\ t # w /\ u # w
       /\ locks[t][c] = READ /\ locks[u][c] = READ /\ locks[w][d] = WRITE

\* C22: a run of successful readIncremental calls with skip = 0 and a batch
\* size of at least 1, each going on with the cursor the previous one left
\* behind, over a collection that does not change, has returned the documents
\* of the collection in sequential order, each once, and when a call of the
\* run returns no document the run has returned every document.
C22_PagingReturnsAll ==
  last.paging =>
    /\ Len(last.paged) <= Len(index)
    /\ last.paged = Window(1, Len(last.paged))
    /\ last.docs = <<>> => last.paged = index

\* C22 witness: a run over at least three documents with batch size 2 has
\* ended with a call that returned no document
C22_Witness ==
  /\ last.paging /\ last.docs = <<>> /\ last.batchSize = 2
  /\ Len(index) >= 3 /\ last.paged = index /\ last.posIn = Len(index)

\* a readSlice call that asked for at least one document and succeeded
SliceRan ==
  /\ last.op = "readSlice" /\ last.limit >= 1
  /\ last.res = NO_ERROR /\ ~last.thrown /\ last.pre = RUNNING

\* C23: readSlice with skip = -2 and limit = 1 over a collection of 5 documents
\* returns exactly one document, the 4th in index order.
C23_SkipMinusTwo ==
  (SliceRan /\ last.skip = 0 - 2 /\ last.limit = 1 /\ Len(index) = 5) =>
    last.docs = <<index[4]>>

\* C23 reached: over 5 documents readSlice(skip = -2, limit = 1) returns the
\* 3rd document
C23_Reached ==
  /\ SliceRan /\ last.skip = 0 - 2 /\ last.limit = 1 /\ Len(index) = 5
  /\ last.docs = <<index[3]>>

\* C24: readSlice with a negative skip that does not reach beyond the first
\* document returns the documents from the starting point (-skip documents
\* before the end) forward, up to limit of them, in forward order.
C24_NegativeSkipForward ==
  (SliceRan /\ last.skip < 0 /\ Len(index) + last.skip >= 0) =>
    last.docs = Window(Len(index) + last.skip + 1,
                       Minimum(Len(index), Len(index) + last.skip + last.limit))

\* C24 reached: over 5 documents readSlice(skip = -2, limit = 2) returns the
\* 3rd document followed by the 2nd
C24_Reached ==
  /\ SliceRan /\ last.skip = 0 - 2 /\ last.limit = 2 /\ Len(index) = 5
  /\ last.docs = <<index[3], index[2]>>

\* C25: readSlice with skip = s >= 0 and limit = l >= 1 over the documents
\* d1..dN returns d(s+1)..d(min(N, s+l)) in that order, and no document when
\* s >= N.
C25_ForwardSlice ==
  (SliceRan /\ last.skip >= 0) =>
    /\ last.docs = Window(last.skip + 1,
                          Minimum(Len(index), last.skip + last.limit))
    /\ last.skip >= Len(index) => last.docs = <<>>

\* C25 witness: skip = 1 and limit = 2 over at least four documents returned
\* the 2nd and the 3rd
C25_Witness ==
  /\ SliceRan /\ last.skip = 1 /\ last.limit = 2 /\ Len(index) >= 4
  /\ last.docs = <<index[2], index[3]>>

\* C26: every update and every replace call fails and leaves the collection
\* and the tick server as they were; an update that runs throws
\* DOCUMENT_TYPE_INVALID when its old or its new value is neither object nor
\* array (array or not the other one), NOT_IMPLEMENTED when one of them is an
\* array and when both are objects; replace throws NOT_IMPLEMENTED whatever it
\* is given.
C26_StubsFail ==
  /\ last.op \in {"update", "replace"} =>
       /\ last.thrown /\ last.res # NO_ERROR /\ ~last.result.has
       /\ index = last.preIndex /\ tickServer = last.preTick
       /\ last.trace = <<>>
  /\ Ran("update") =>
       last.res = (IF \/ ~isObject(last.value) /\ ~isArray(last.value)
                      \/ ~isObject(last.newValue) /\ ~isArray(last.newValue)
                   THEN DOCUMENT_TYPE_INVALID ELSE NOT_IMPLEMENTED)
  /\ last.op = "replace" => last.res = NOT_IMPLEMENTED

\* C26 witness: a replace given a value that is neither object nor array, in a
\* running transaction whose collection holds a document
C26_Witness ==
  /\ last.op = "replace" /\ last.pre = RUNNING /\ index # <<>>
  /\ ~isObject(last.value) /\ ~isArray(last.value)
  /\ last.res = NOT_IMPLEMENTED /\ last.thrown

DfOps == {"reserveElement", "writeElement", "seal"}

\* C27: once the datafile is sealed, every reserveElement, write and seal call
\* fails with the full or the sealed condition and leaves currentSize, the
\* append cursor and the stored markers unchanged, and the datafile stays
\* sealed.
C27_SealedStaysSealed ==
  (last.op \in DfOps /\ last.preDf.isSealed) =>
    /\ last.res \in {DATAFILE_FULL, DATAFILE_SEALED}
    /\ df.isSealed
    /\ df.currentSize = last.preDf.currentSize
    /\ df.next = last.preDf.next
    /\ df.markers = last.preDf.markers
    /\ df.footer = last.preDf.footer

\* C27 witness: a reserveElement on a sealed datafile, for a size that is free
\* below maximalSize, failed
C27_Witness ==
  /\ last.op = "reserveElement" /\ last.preDf.isSealed
  /\ AlignedSize(last.size) <= df.maximalSize - df.currentSize
  /\ last.res = DATAFILE_SEALED

\* C28: in a sealed datafile the footer's totalSize is the currentSize of the
\* datafile, footer included, and is at most the footer's maximalSize.
C28_FooterTotalSize ==
  df.isSealed =>
    /\ df.footer.has
    /\ df.footer.totalSize = df.currentSize
    /\ df.footer.totalSize <= df.footer.maximalSize

\* C28 witness: a seal after reservations and writes that left less than 8
\* bytes free
C28_Witness ==
  /\ last.op = "seal" /\ last.res = NO_ERROR /\ df.isSealed
  /\ Len(df.reserved) >= 3 /\ Cardinality(df.markers) >= 3
  /\ df.maximalSize - df.currentSize < 8

\* C29: on a datafile that is not sealed reserveElement succeeds exactly when
\* the aligned size fits in maximalSize - footerSize - currentSize; when it
\* does not fit it returns DATAFILE_FULL, sets _full and leaves _next and
\* currentSize unchanged; currentSize + footerSize <= maximalSize in every
\* reachable state, and seal never fails for want of room for the footer.
C29_ReserveFits ==
  /\ (last.op = "reserveElement" /\ ~last.preDf.isSealed) =>
       IF AlignedSize(last.size) <= last.preDf.maximalSize
                                      - last.preDf.footerSize
                                      - last.preDf.currentSize
       THEN /\ last.res = NO_ERROR
            /\ df.next = last.preDf.next + AlignedSize(last.size)
       ELSE /\ last.res = DATAFILE_FULL
            /\ df.full
            /\ df.next = last.preDf.next
            /\ df.currentSize = last.preDf.currentSize
  /\ df.currentSize + df.footerSize <= df.maximalSize
  /\ last.op = "seal" => last.res # DATAFILE_FULL

\* C29 witness: a reserveElement was turned down although free bytes were
\* left, and the datafile was sealed afterwards
C29_Witness ==
  /\ last.op = "seal" /\ last.res = NO_ERROR
  /\ last.preDf.full
  /\ last.preDf.currentSize + last.preDf.footerSize < last.preDf.maximalSize

\* C30: the regions reserved in a datafile are pairwise disjoint: each starts
\* on an 8-byte boundary at the append cursor the previous reservation left
\* behind; a successful reserveElement returns the append cursor and grows
\* currentSize by exactly the aligned size; currentSize grows in no other
\* way (seal reserves the room of its footer like any other marker).
C30_RegionsDisjoint ==
  /\ \A i \in 1..Len(df.reserved) :
       /\ df.reserved[i].position % 8 = 0
       /\ df.reserved[i].position =
            IF i = 1 THEN HeaderSize
            ELSE df.reserved[i - 1].position + df.reserved[i - 1].size
       /\ \A j \in 1..Len(df.reserved) :
            i < j => df.reserved[i].position + df.reserved[i].size
                       <= df.reserved[j].position
  /\ last.op \in DfOps =>
       IF last.res = NO_ERROR /\ last.op \in {"reserveElement", "seal"}
       THEN /\ last.position = last.preDf.next
            /\ df.currentSize = last.preDf.currentSize + AlignedSize(last.size)
            /\ df.next = last.preDf.next + AlignedSize(last.size)
            /\ df.reserved = Append(last.preDf.reserved,
                                    [position |-> last.position,
                                     size |-> AlignedSize(last.size)])
       ELSE /\ df.currentSize = last.preDf.currentSize
            /\ df.reserved = last.preDf.reserved

\* C30 witness: a third reservation, for a size that is not a multiple of 8,
\* behind two reservations of different sizes
C30_Witness ==
  /\ last.op = "reserveElement" /\ last.res = NO_ERROR
  /\ last.size % 8 # 0
  /\ Len(df.reserved) = 3
  /\ df.reserved[1].size # df.reserved[2].size

\* ------------------------------------------------------- C37 .. C40
\* commit or abort was called on a null handle or outside status RUNNING
NotRunningCall ==
  /\ last.op \in {"commit", "abort"}
  /\ trxNull \/ last.pre # RUNNING

\* the guard of commit and abort turned the call down
TurnedDown ==
  /\ last.res = TRANSACTION_INTERNAL
  /\ last.trace = <<>>
  /\ status = last.pre

\* C37 as stated: commit and abort called when the handle is null or the
\* status is not RUNNING return TRANSACTION_INTERNAL, make no low-level call
\* and leave the status unchanged; a commit or abort that follows a successful
\* commit or abort always fails.
C37_AsStated ==
  /\ NotRunningCall => TurnedDown
  /\ (last.op \in {"commit", "abort"} /\ last.afterEnd) =>
       last.res = TRANSACTION_INTERNAL

\* C37 amended: commit and abort called when the handle is null or the status
\* is not RUNNING return TRANSACTION_INTERNAL, make no low-level call and
\* leave the status unchanged; at nesting level 0 a commit or abort that
\* follows a successful commit or abort fails.
C37_NotRunningFails ==
  /\ NotRunningCall => TurnedDown
  /\ (last.op \in {"commit", "abort"} /\ last.afterEnd /\ nestingLevel = 0) =>
       TurnedDown

\* C37 witness: at the top level an abort right after a successful commit was
\* turned down
C37_Witness ==
  /\ last.op = "abort" /\ last.afterEnd /\ nestingLevel = 0
  /\ last.pre = COMMITTED /\ TurnedDown

\* C38: document, insert, update, replace and remove called while the status
\* is not RUNNING order no ditch, take no lock and read, insert or remove no
\* document.
C38_OnlyWhenRunning ==
  (last.op \in CrudOps \cup {"replace"} /\ last.pre # RUNNING) =>
    /\ NoStorageEvent
    /\ index = last.preIndex

\* C38 reached: in a release build an insert called in status CREATED ordered
\* a ditch and stored a document
C38_Reached ==
  /\ last.op = "insert" /\ last.pre = CREATED /\ build = "release"
  /\ last.res = NO_ERROR
  /\ HasEv(last.trace, "orderDitch") /\ HasEv(last.trace, "insert")
  /\ Len(index) = Len(last.preIndex) + 1

\* C39: a readIncremental call that succeeds appends at most
\* min(batchSize, limit) documents, and its skip goes down by exactly the
\* number of documents it passed without appending them.
C39_BatchBound ==
  (last.op = "readIncremental" /\ last.res = NO_ERROR) =>
    /\ Len(last.docs) <= Minimum(last.batchSize, last.limit)
    /\ last.skip - last.skipOut = (last.pos - last.posIn) - Len(last.docs)

\* C39 reached: readIncremental with limit = 0 and a batch size of at least 1
\* appended a document
C39_Reached ==
  /\ last.op = "readIncremental" /\ last.res = NO_ERROR
  /\ last.limit = 0 /\ last.batchSize >= 1
  /\ Len(last.docs) = 1

\* C40: readSlice called with limit = 0 returns NO_ERROR, takes no lock, orders
\* no ditch, consults no index and appends no document, whatever skip is.
C40_LimitZero ==
  (last.op = "readSlice" /\ last.limit = 0) =>
    /\ last.res = NO_ERROR /\ ~last.thrown
    /\ last.trace = <<>>
    /\ last.docs = <<>>
    /\ held = last.preHeld

\* C40 witness: readSlice with limit = 0 and a negative skip in a running
\* transaction whose collection holds documents
C40_Witness ==
  /\ last.op = "readSlice" /\ last.limit = 0 /\ last.skip < 0
  /\ last.pre = RUNNING /\ index # <<>>
  /\ last.res = NO_ERROR /\ last.trace = <<>>

\* ------------------------------------------------------- C34 .. C35
\* a <= b for two TRI_voc_size_t values
WordLeq(a, b) == a.hi < b.hi \/ (a.hi = b.hi /\ a.lo <= b.lo)

\* C34: for every TRI_voc_size_t value n (32 bits, arithmetic modulo 2^32)
\* AlignedSize(n) is a multiple of 8 and AlignedSize(n) >= n.
C34_AlignedSize ==
  last.op = "AlignedSize" =>
    /\ last.out.lo % 8 = 0
    /\ WordLeq(last.word, last.out)

\* C34 reached: for one of the seven largest values of the type AlignedSize
\* is 0
C34_Reached ==
  /\ last.op = "AlignedSize"
  /\ last.word.hi = Half - 1 /\ last.word.lo > Half - 8
  /\ last.out = [hi |-> 0, lo |-> 0]

\* C35: VPackOffset returns sizeof(base marker) + sizeof(transaction id) for
\* the types VPACK_DOCUMENT and VPACK_REMOVE, and for every other marker type
\* it returns nothing to its caller, in maintainer and in release builds.
C35_VPackOffsetFailsFast ==
  last.op = "VPackOffset" =>
    IF last.mtype \in {"TRI_WAL_MARKER_VPACK_DOCUMENT",
                       "TRI_WAL_MARKER_VPACK_REMOVE"}
    THEN last.returned /\ last.offset = 32
    ELSE ~last.returned

\* C35 reached: in a release build VPackOffset of a header marker returned 0
\* and the process goes on
C35_Reached ==
  /\ last.op = "VPackOffset" /\ build = "release"
  /\ last.mtype = "TRI_DF_MARKER_HEADER"
  /\ last.returned /\ last.offset = 0 /\ alive

\* ---------------------------------------------------------------- C31
\* the markers of the datafile in the order they lie on disk, before the call
DiskBefore == DiskOrder(last.preDf)

\* a marker that was damaged on disk
Damaged(m) == ~m.crcOk \/ ~m.whole

\* C31: the ticks that checksummed writes give to the markers of one datafile
\* increase strictly in the order of the writes; after each write every tick
\* lies between tickMin and tickMax; dataMin and dataMax change only when a
\* document or edge marker was written.
C31_MonotonicTicks ==
  /\ \A i, j \in 1..Len(df.log) :
       i < j => df.log[i].tick < df.log[j].tick
  /\ \A i \in 1..Len(df.log) :
       /\ df.tickMin <= df.log[i].tick
       /\ df.log[i].tick <= df.tickMax
  /\ (df.dataMin # last.preDf.dataMin \/ df.dataMax # last.preDf.dataMax)
       => /\ last.op = "writeCrcElement"
          /\ last.res = NO_ERROR
          /\ last.mtype \in DataTypes
  /\ (last.op = "writeCrcElement" /\ last.res = NO_ERROR)
       => /\ df.log[Len(df.log)].tick = last.tick
          /\ last.tick > last.preTick
          /\ last.mtype \in DataTypes => df.dataMax = last.tick

\* three markers were written, a document or edge marker after another one
C31_Witness ==
  /\ last.op = "writeCrcElement"
  /\ last.res = NO_ERROR
  /\ Len(df.log) = 3
  /\ df.log[1].type \notin DataTypes
  /\ df.log[2].type \in DataTypes
  /\ last.mtype \notin DataTypes
  /\ df.tickMin < df.dataMin
  /\ df.dataMax < df.tickMax

\* ---------------------------------------------------------------- C32
\* C32: iterate hands the markers behind the header to the visitor in their
\* on-disk order up to the append cursor; at the first marker whose base
\* header is not valid it stops and reports failure, and the visitor sees
\* neither that marker nor any later one.
C32_IterateStops ==
  last.op = "iterate" =>
    LET disk == DiskOrder(df)
        n == Len(last.visited)
    IN  /\ n <= Len(disk)
        /\ \A i \in 1..n : /\ last.visited[i] = disk[i]
                           /\ TRI_IsValidMarkerDatafile(disk[i])
        /\ last.returned <=> n = Len(disk)
        /\ ~last.returned => ~TRI_IsValidMarkerDatafile(disk[n + 1])

\* the second of three markers is not valid, the third one is
C32_Witness ==
  /\ last.op = "iterate"
  /\ Len(DiskOrder(df)) = 3
  /\ ~TRI_IsValidMarkerDatafile(DiskOrder(df)[2])
  /\ DiskOrder(df)[2].type \in WrittenTypes
  /\ TRI_IsValidMarkerDatafile(DiskOrder(df)[3])
  /\ Len(last.visited) = 1
  /\ ~last.returned

\* ---------------------------------------------------------------- C33
\* the first on-disk marker that scan does not find ok, 0 if there is none
FirstBad(disk) ==
  IF \A i \in 1..Len(disk) : EntryOk(disk[i]) THEN 0
  ELSE CHOOSE i \in 1..Len(disk) :
         /\ ~EntryOk(disk[i])
         /\ \A k \in 1..(i - 1) : EntryOk(disk[k])

\* C33: scan reports a marker that was cut short or whose checksum fails with
\* status size-too-small or CRC-failed; tryRepair on a datafile whose first
\* marker that is not ok is such a marker leaves a sealed datafile that
\* iterates without error and holds exactly the markers before it, in order.
C33_ScanAndRepair ==
  /\ last.op = "scan" =>
       /\ Len(last.entries) = Len(DiskOrder(df))
       /\ \A i \in 1..Len(last.entries) :
            /\ last.entries[i].position = DiskOrder(df)[i].position
            /\ Damaged(DiskOrder(df)[i]) => last.entries[i].status \in {4, 5}
  /\ ( /\ last.op = "tryRepair"
       /\ FirstBad(DiskBefore) # 0
       /\ Damaged(DiskBefore[FirstBad(DiskBefore)]) )
       => LET n == FirstBad(DiskBefore) - 1
              disk == DiskOrder(df)
          IN  /\ last.returned
              /\ df.isSealed
              /\ TRI_IterateDatafile(df).ok
              /\ Len(disk) = n + 1
              /\ disk[n + 1].type = "TRI_DF_MARKER_FOOTER"
              /\ SubSeq(disk, 1, n) = SubSeq(DiskBefore, 1, n)

\* the second of three written markers was damaged and the file was repaired
C33_Witness ==
  /\ last.op = "tryRepair"
  /\ Len(DiskBefore) >= 3
  /\ FirstBad(DiskBefore) = 2
  /\ Damaged(DiskBefore[2])
  /\ EntryOk(DiskBefore[3])
  /\ Len(DiskOrder(df)) = 2

====
